---- MODULE Spec2Model ----
(***************************************************************************)
(* Holy Tea inventory sync: the reverse-sync job (Google Sheet ->          *)
(* Shopify, compare-and-swap with one staleness retry), together with the  *)
(* forward-sync worker and the reconcile job that write the same sheet.    *)
(*                                                                         *)
(* The sheet is a function from sheet row numbers (row 1 is the header,    *)
(* data rows are 2..NumRows+1) to the six columns the jobs use, named by   *)
(* their column letters as in CONFIG.col: E Desired_Available,             *)
(* F Available, G ReverseSync_Status, H ReverseSync_LastPushedAt,          *)
(* I ReverseSync_LastError, J InventoryItem_ID.                            *)
(***************************************************************************)
EXTENDS Integers, Sequences, FiniteSets, TLC

\* ------------------------------------------------------------- bounds
NumRows == 2        \* data rows of the sheet; item i is the item of data row i
MaxQty == 2         \* quantities range over 0..MaxQty
MaxRuns == 2        \* reverse-sync runs per behaviour

Items == 1..NumRows
Qty == 0..MaxQty

\* ------------------------------------------------------------- cells
\* A cell value is a record [k, n]: k the kind of value, n its number.
Blank == [k |-> "blank", n |-> 0]              \* "", undefined, or a short row
Num(n) == [k |-> "num", n |-> n]               \* the JS number n
NumStr(n) == [k |-> "numstr", n |-> n]         \* the string "n", possibly padded
Frac(n) == [k |-> "frac", n |-> n]             \* the JS number n + 0.5, n >= 0
Text == [k |-> "text", n |-> 0]                \* a non-numeric string such as "N/A"
Gid(i) == [k |-> "gid", n |-> i]               \* "gid://shopify/InventoryItem/<i>"
GidPad(i) == [k |-> "gidpad", n |-> i]         \* the same with surrounding blanks
Spaces == [k |-> "spaces", n |-> 0]            \* a string of blanks only
PENDING == [k |-> "PENDING", n |-> 0]
ERROR == [k |-> "ERROR", n |-> 0]
Iso(t) == [k |-> "iso", n |-> t]               \* new Date(t).toISOString()

None == << >>
Some(n) == << n >>

\* Mutant of normalizeInt: no Number.isFinite test, so text becomes NaN (-1 here).
normalizeIntNoFiniteTest(value) ==
  IF value.k \in {"num", "numstr", "frac"} THEN Some(value.n)
  ELSE IF value.k = "text" THEN Some(0 - 1) ELSE None

\* normalizeInt: null for null/undefined/blank/non-finite, else Math.trunc(Number(s)).
normalizeInt(value) ==
  IF value.k \in {"num", "numstr", "frac"} THEN Some(value.n) ELSE None

\* Mutant of invItemGidOf: an empty id cell is taken for the first item's id.
invItemGidOfNoTest(cell) ==
  IF cell.k \in {"gid", "gidpad"} THEN Some(cell.n) ELSE Some(1)

\* row[9] ? String(row[9]).trim() : null; None stands for both null and "".
invItemGidOf(cell) ==
  IF cell.k \in {"gid", "gidpad"} THEN Some(cell.n) ELSE None

\* ------------------------------------------------------------- texts
\* A text is kept as the kind of its full form and the number of characters
\* that survive slicing: [k |-> kind, n |-> length].
Min(a, b) == IF a < b THEN a ELSE b
Slice(len, limit) == Min(len, limit)

JsonSliceLimit == 500    \* JSON.stringify(...).slice(0, 500)
MsgSliceLimit == 450     \* String(err?.message || err).slice(0, 450)
UserErrorsPrefixLen == 20   \* "Shopify userErrors: "
HttpPrefixLen == 18         \* "Shopify HTTP 500: "
ReadFailLen == 78           \* "Could not read current Shopify available quantity (...)."
CodeOffset == 10            \* [{"code":" precedes the first error code

\* ------------------------------------------------------------- platform
\* The answer of the platform to one GraphQL request, as shopifyGraphql and
\* its callers see it: kind "ok" (data, no userErrors), "userErrors" (data with
\* userErrors, codes in order), "http" (!resp.ok, thrown), "noqty" (a read
\* whose quantity is not a number).
STALE == "COMPARE_QUANTITY_STALE"
INVALID == "INVALID_INVENTORY_ITEM"

OkResp == [kind |-> "ok", codes |-> << >>, bodyLen |-> 0]
StaleResp == [kind |-> "userErrors", codes |-> << STALE >>, bodyLen |-> 130]
RejectResp == [kind |-> "userErrors", codes |-> << INVALID >>, bodyLen |-> 700]
MixedResp == [kind |-> "userErrors", codes |-> << INVALID, STALE >>, bodyLen |-> 830]
HttpResp == [kind |-> "http", codes |-> << >>, bodyLen |-> 600]
NoQtyResp == [kind |-> "noqty", codes |-> << >>, bodyLen |-> 0]

\* inventorySetQuantities with compareQuantity, as the platform answers it:
\* accepted only when compareQuantity is the live quantity; a mismatch is
\* reported as COMPARE_QUANTITY_STALE; any request may be rejected for another
\* reason or fail in transport.
SetResponses(live, cmpQty) ==
  (IF live = cmpQty THEN {OkResp} ELSE {StaleResp, MixedResp})
    \cup {RejectResp, HttpResp}

ReadResponses == {OkResp, HttpResp, NoQtyResp}

\* Mutant of HasStale: any userErrors at all triggers the re-read and retry.
HasStaleAnyError(resp) == resp.kind = "userErrors"

\* userErrors.find((e) => e.code === "COMPARE_QUANTITY_STALE")
HasStale(resp) ==
  resp.kind = "userErrors" /\ \E j \in 1..Len(resp.codes) : resp.codes[j] = STALE

TextKind(resp) ==
  CASE resp.kind = "http" -> "Shopify HTTP"
    [] resp.kind = "noqty" -> "Could not read"
    [] resp.kind = "userErrors" /\ resp.codes[1] = STALE -> "userErrors:STALE"
    [] resp.kind = "userErrors" /\ resp.codes[1] = INVALID -> "userErrors:INVALID"
    [] OTHER -> "none"

\* err.message of the Error thrown for the response (shopifyGraphql,
\* getCurrentAvailableQuantity, shopifyInventorySetAvailable).
ErrorMessage(resp) ==
  [k |-> TextKind(resp),
   n |-> CASE resp.kind = "http" -> HttpPrefixLen + Slice(resp.bodyLen, JsonSliceLimit)
           [] resp.kind = "noqty" -> ReadFailLen
           [] OTHER -> UserErrorsPrefixLen + Slice(resp.bodyLen, JsonSliceLimit)]

\* Mutant of CatchMsg: the message is written uncut.
CatchMsgUncut(message) == message

\* const msg = String(err?.message || err).slice(0, 450)
CatchMsg(message) == [k |-> message.k, n |-> Slice(message.n, MsgSliceLimit)]

\* ------------------------------------------------------------- state
VARIABLES
  sheet,          \* the data rows of Truth_Table: sheet[i] is JS rows[i], sheet row i + 1
  platform,       \* the platform's available quantity of each item at the location
  maxRowsPerRun,  \* CONFIG.maxRowsPerRun of the reverse-sync job
  env,            \* the environment variables that are set (non-empty) for the job
  runBudget,      \* how many reverse-sync runs the scheduler still triggers
  pc,             \* where the reverse-sync run is: idle, pending, set1, read, set2, outcome
  rows,           \* the run's rows: the data rows as read at the start of the run
  candidates,     \* the run's candidates array
  k,              \* index in candidates of the candidate being pushed
  current,        \* the quantity re-read for the retry of candidate k
  updates,        \* the run's updates array
  exit,           \* how the last run ended: none, ok, fail (exitCode 1), crash
  runs,           \* number of runs started
  now,            \* the clock read by nowIso(); it advances when a run starts
  reqs,           \* log: the platform requests of the latest candidate pushed, in order
  attempted,      \* log: the sheet rows the current run has issued a request for
  outcomes,       \* log: sheet row -> the platform answer that decided its push
  writes,         \* log: the cell writes of the current run, in order
  marked,         \* log: the sheet rows the current run's PENDING pass wrote
  calls,          \* log: the Sheets API calls of the current run, in order
  syncedAt,       \* log: sheet row -> the run that wrote its successful outcome, 0 if
                  \* none did or somebody has typed a desired quantity since
  msgs,           \* the inventory messages waiting in the forward-sync subscription
  recPc,          \* where the reconcile job is: idle, map, write
  recRows,        \* the reconcile job's rows
  recUpdates,     \* the reconcile job's updates array
  notified,       \* item -> the quantity of the last inventory webhook sent for it
  applied,        \* log: the rows whose push the platform had accepted when a run was killed
  headers,        \* the names in the sheet's header row
  jobMax,         \* CONFIG.maxRowsPerRun of the reconcile, append and metadata jobs
  catalog,        \* item -> the product details the platform holds for it
  appending,      \* the rows computed by append runs that have not written yet
  metaUpdates,    \* the updates array of a metadata run that has not written yet
  levels,         \* how many items have a level at the location while its map is built
  page,           \* buildLocationAvailableMap: the loop counter
  after,          \* buildLocationAvailableMap: the cursor, as the number of levels before it
  map,            \* buildLocationAvailableMap: the map built so far
  mapPc,          \* buildLocationAvailableMap: idle, paging, done
  parked,         \* the locals of a second reverse-sync execution while the first one runs
  receivedMessages, \* forward-sync main: the batch pulled from the subscription
  pos,            \* forward-sync main: the place in the batch of the next message
  fwdLog          \* log: the update attempts and acknowledgements of the batch, in order

otherJobs == << msgs, recPc, recRows, recUpdates, notified >>
paging == << levels, page, after, map, mapPc >>
worker == << receivedMessages, pos, fwdLog >>
catalogJobs == << worker, jobMax, catalog, parked, appending, metaUpdates, paging >>

vars == << sheet, platform, maxRowsPerRun, env, runBudget, pc, rows, candidates, k,
           current, updates, exit, runs, now, reqs, attempted, outcomes, writes, marked, calls,
           syncedAt, msgs, recPc, recRows, recUpdates, notified, applied, headers, worker, jobMax, catalog, parked, appending, metaUpdates,
           levels, page, after, map, mapPc >>

Cols == {"A", "B", "C", "D", "E", "F", "G", "H", "I", "J"}
SheetRows(sh) == {i + 1 : i \in 1..Len(sh)}

\* ------------------------------------------------------------- candidate scan
Candidate(i, gid, desired, available) ==
  [rowIndex1Based |-> i + 1, inventoryItemId |-> gid,
   desired |-> desired, available |-> available]

\* The scan loop from index i on; acc is the candidates array so far.
RECURSIVE ScanFrom(_, _, _, _)
ScanFrom(rs, i, cap, acc) ==
  IF i > Len(rs) THEN acc
  ELSE
    LET row == rs[i]
        desired == normalizeInt(row.E)
        available == normalizeInt(row.F)
        invItemGid == invItemGidOf(row.J)
    IN  IF invItemGid = None THEN ScanFrom(rs, i + 1, cap, acc)
        ELSE IF desired = None \/ available = None THEN ScanFrom(rs, i + 1, cap, acc)
        ELSE IF desired # available THEN
          LET pushed == Append(acc, Candidate(i, invItemGid[1], desired[1], available[1]))
          IN  IF Len(pushed) >= cap THEN pushed ELSE ScanFrom(rs, i + 1, cap, pushed)
        ELSE ScanFrom(rs, i + 1, cap, acc)

Scan(rs, cap) == ScanFrom(rs, 1, cap, << >>)

\* ------------------------------------------------------------- batch writes
Upd(row, col, val) == [row |-> row, col |-> col, val |-> val]

RECURSIVE ApplyUpdates(_, _)
ApplyUpdates(sh, data) ==
  IF data = << >> THEN sh
  ELSE LET u == Head(data)
       IN  ApplyUpdates([sh EXCEPT ![u.row - 1][u.col] = u.val], Tail(data))

\* Mutant of PendingUpdates: no row is marked.
PendingUpdatesNone(cands) == << >>

PendingUpdates(cands) ==
  [j \in 1..Len(cands) |-> Upd(cands[j].rowIndex1Based, "G", PENDING)]

\* Mutant of FailureUpdates: a failed row loses its desired quantity as well.
FailureUpdatesClearDesired(c, msg) ==
  << Upd(c.rowIndex1Based, "G", ERROR),
     Upd(c.rowIndex1Based, "I", msg),
     Upd(c.rowIndex1Based, "E", Blank) >>

\* Mutant of SuccessUpdates: Desired_Available is not cleared.
SuccessUpdatesKeepDesired(c, t) ==
  << Upd(c.rowIndex1Based, "G", Blank),
     Upd(c.rowIndex1Based, "H", Iso(t)),
     Upd(c.rowIndex1Based, "I", Blank) >>

SuccessUpdates(c, t) ==
  << Upd(c.rowIndex1Based, "G", Blank),
     Upd(c.rowIndex1Based, "H", Iso(t)),
     Upd(c.rowIndex1Based, "I", Blank),
     Upd(c.rowIndex1Based, "E", Blank) >>

FailureUpdates(c, msg) ==
  << Upd(c.rowIndex1Based, "G", ERROR),
     Upd(c.rowIndex1Based, "I", msg) >>

Logged(data, pass) ==
  [j \in 1..Len(data) |-> [row |-> data[j].row, col |-> data[j].col,
                           val |-> data[j].val, pass |-> pass]]

\* ------------------------------------------------------------- reverse-sync run
Req(c, op, qty, cmpQty, resp) ==
  [row |-> c.rowIndex1Based, item |-> c.inventoryItemId, op |-> op,
   quantity |-> qty, cmp |-> cmpQty, live |-> platform[c.inventoryItemId],
   kind |-> resp.kind, codes |-> resp.codes]

Params ==
  {"SPREADSHEET_ID", "SHEET_NAME", "MAX_ROWS_PER_RUN", "SHOPIFY_STORE_DOMAIN",
   "SHOPIFY_LOCATION_ID", "SHOPIFY_ADMIN_TOKEN"}

\* Mutant of Required: the token is asked for only when the first request is built.
RequiredNoToken == {"SPREADSHEET_ID", "SHOPIFY_STORE_DOMAIN", "SHOPIFY_LOCATION_ID"}

\* The variables main asks requireEnv for.
Required ==
  {"SPREADSHEET_ID", "SHOPIFY_STORE_DOMAIN", "SHOPIFY_LOCATION_ID", "SHOPIFY_ADMIN_TOKEN"}

\* Number(process.env.MAX_ROWS_PER_RUN || "50")
DefaultMaxRows == 50

\* The run budget of a scheduler that never stops triggering runs.
Forever == MaxRuns + 1

\* main, from the sheet read through the candidate scan: no candidate ends the
\* run. Runs and clock readings past MaxRuns are counted as MaxRuns.
StartRun ==
  /\ pc = "idle"
  /\ runBudget > 0
  /\ Required \subseteq env
  /\ runBudget' = IF runBudget = Forever THEN Forever ELSE runBudget - 1
  /\ runs' = IF runs < MaxRuns THEN runs + 1 ELSE runs
  /\ now' = IF now < MaxRuns THEN now + 1 ELSE now
  /\ rows' = sheet
  /\ candidates' = Scan(rows', maxRowsPerRun)
  /\ pc' = IF candidates' = << >> THEN "idle" ELSE "pending"
  /\ exit' = IF candidates' = << >> THEN "ok" ELSE "none"
  /\ k' = 0
  /\ current' = 0
  /\ updates' = << >>
  /\ reqs' = << >>
  /\ attempted' = {}
  /\ outcomes' = << >>
  /\ writes' = << >>
  /\ marked' = {}
  /\ calls' = << "values.get" >>
  /\ UNCHANGED << sheet, platform, maxRowsPerRun, env,
                  syncedAt, otherJobs, applied, headers, catalogJobs >>

\* requireEnv throws in main: main rejects, exitCode 1.
ConfigFails ==
  /\ pc = "idle"
  /\ runBudget > 0
  /\ ~(Required \subseteq env)
  /\ runBudget' = IF runBudget = Forever THEN Forever ELSE runBudget - 1
  /\ runs' = IF runs < MaxRuns THEN runs + 1 ELSE runs
  /\ exit' = "fail"
  /\ UNCHANGED << sheet, platform, maxRowsPerRun, env, pc, rows, candidates, k, current,
                  updates, now, reqs, attempted, outcomes, writes, marked, calls,
                  syncedAt, otherJobs, applied, headers, catalogJobs >>

\* The sheet read throws (no credentials, no such spreadsheet or sheet, a
\* transport failure): main rejects, exitCode 1.
ReadFails ==
  /\ pc = "idle"
  /\ runBudget > 0
  /\ Required \subseteq env
  /\ runBudget' = IF runBudget = Forever THEN Forever ELSE runBudget - 1
  /\ runs' = IF runs < MaxRuns THEN runs + 1 ELSE runs
  /\ exit' = "fail"
  /\ calls' = << "values.get" >>
  /\ UNCHANGED << sheet, platform, maxRowsPerRun, env, pc, rows, candidates, k, current,
                  updates, now, reqs, attempted, outcomes, writes, marked,
                  syncedAt, otherJobs, applied, headers, catalogJobs >>

\* Mutant of MarkPending: one update call per candidate row.
MarkPendingRowByRow ==
  /\ pc = "pending"
  /\ LET j == Cardinality(marked) + 1
         u == << PendingUpdates(candidates)[j] >>
     IN  /\ sheet' = ApplyUpdates(sheet, u)
         /\ writes' = writes \o Logged(u, "pending")
         /\ marked' = marked \cup {candidates[j].rowIndex1Based}
         /\ calls' = Append(calls, "batchUpdate:pending")
         /\ pc' = IF j = Len(candidates) THEN "set1" ELSE "pending"
         /\ k' = IF j = Len(candidates) THEN 1 ELSE 0
  /\ UNCHANGED << platform, maxRowsPerRun, env, runBudget, rows, candidates, current, updates,
                  exit, runs, now, reqs, attempted, outcomes, syncedAt, otherJobs, applied, headers, catalogJobs >>

\* The PENDING batchUpdate succeeds; the push loop starts.
MarkPending ==
  /\ pc = "pending"
  /\ sheet' = ApplyUpdates(sheet, PendingUpdates(candidates))
  /\ writes' = writes \o Logged(PendingUpdates(candidates), "pending")
  /\ marked' = {candidates[j].rowIndex1Based : j \in 1..Len(candidates)}
  /\ calls' = Append(calls, "batchUpdate:pending")
  /\ pc' = "set1"
  /\ k' = 1
  /\ UNCHANGED << platform, maxRowsPerRun, env, runBudget, rows, candidates, current, updates,
                  exit, runs, now, reqs, attempted, outcomes,
                  syncedAt, otherJobs, applied, headers, catalogJobs >>

\* Mutant of MarkPendingFails: the error of the PENDING batchUpdate is swallowed
\* and the push loop starts.
MarkPendingFailsGoesOn ==
  /\ pc = "pending"
  /\ pc' = "set1"
  /\ k' = 1
  /\ UNCHANGED << sheet, platform, maxRowsPerRun, env, runBudget, rows, candidates, current,
                  updates, exit, runs, now, reqs, attempted, outcomes, writes, marked, calls,
                  syncedAt, otherJobs, applied, headers, catalogJobs >>

\* The PENDING batchUpdate throws: main rejects, exitCode 1.
MarkPendingFails ==
  /\ pc = "pending"
  /\ pc' = "idle"
  /\ exit' = "fail"
  /\ calls' = Append(calls, "batchUpdate:pending")
  /\ UNCHANGED << sheet, platform, maxRowsPerRun, env, runBudget, rows, candidates, k, current,
                  updates, runs, now, reqs, attempted, outcomes, writes, marked,
                  syncedAt, otherJobs, applied, headers, catalogJobs >>

\* for (const c of candidates): on to the next candidate, or out of the loop.
NextCandidate ==
  /\ IF k < Len(candidates)
       THEN pc' = "set1" /\ k' = k + 1
       ELSE pc' = "outcome" /\ k' = k
  /\ current' = 0
  /\ exit' = exit

\* shopifyInventorySetAvailable returned for candidate c: the try block's push.
Succeeded(c, resp) ==
  /\ updates' = updates \o SuccessUpdates(c, now)
  /\ outcomes' = (c.rowIndex1Based :> resp) @@ outcomes
  /\ NextCandidate

\* Mutant of Failed: the catch block records the row as pushed.
FailedWritesSuccess(c, resp) ==
  /\ updates' = updates \o SuccessUpdates(c, now)
  /\ outcomes' = (c.rowIndex1Based :> resp) @@ outcomes
  /\ NextCandidate

\* Mutant of Failed: no try/catch around the push, the error ends main.
FailedAborts(c, resp) ==
  /\ pc' = "idle"
  /\ exit' = "fail"
  /\ UNCHANGED << updates, outcomes, k, current >>

\* shopifyInventorySetAvailable threw for candidate c: the catch block's push.
Failed(c, resp) ==
  /\ updates' = updates \o FailureUpdates(c, CatchMsg(ErrorMessage(resp)))
  /\ outcomes' = (c.rowIndex1Based :> resp) @@ outcomes
  /\ NextCandidate

\* Mutant of PushArgs: the guard is the desired quantity, not the baseline.
PushArgsCompareDesired(c) ==
  [inventoryItemId |-> c.inventoryItemId, quantity |-> c.desired,
   compareQuantity |-> c.desired]

\* The arguments main passes to shopifyInventorySetAvailable for candidate c.
PushArgs(c) ==
  [inventoryItemId |-> c.inventoryItemId, quantity |-> c.desired,
   compareQuantity |-> c.available]

\* Mutant of Attempt1: the push is started without await, the loop goes on to
\* the next candidate while the answer is outstanding.
Attempt1NoAwait ==
  /\ pc = "set1"
  /\ LET c == candidates[k]
         a == PushArgs(c)
     IN
     \E resp \in SetResponses(platform[a.inventoryItemId], a.compareQuantity) :
       /\ reqs' = << Req(c, "set", a.quantity, a.compareQuantity, resp) >>
       /\ attempted' = attempted \cup {c.rowIndex1Based}
       /\ platform' = IF resp.kind = "ok"
                        THEN [platform EXCEPT ![a.inventoryItemId] = a.quantity]
                        ELSE platform
       /\ NextCandidate
       /\ UNCHANGED << updates, outcomes >>
  /\ UNCHANGED << sheet, maxRowsPerRun, env, runBudget, rows, candidates, runs, now,
                  writes, marked, calls,
                  syncedAt, otherJobs, applied, headers, catalogJobs >>

\* Attempt #1: runOnce(compareQuantity) with the row's available as read by the scan.
Attempt1 ==
  /\ pc = "set1"
  /\ LET c == candidates[k]
         a == PushArgs(c)
     IN
     \E resp \in SetResponses(platform[a.inventoryItemId], a.compareQuantity) :
       /\ reqs' = << Req(c, "set", a.quantity, a.compareQuantity, resp) >>
       /\ attempted' = attempted \cup {c.rowIndex1Based}
       /\ CASE resp.kind = "ok" ->
                 /\ platform' = [platform EXCEPT ![a.inventoryItemId] = a.quantity]
                 /\ Succeeded(c, resp)
            [] HasStale(resp) ->
                 /\ pc' = "read"
                 /\ UNCHANGED << platform, k, current, updates, outcomes, exit >>
            [] OTHER ->
                 /\ Failed(c, resp)
                 /\ UNCHANGED platform
  /\ UNCHANGED << sheet, maxRowsPerRun, env, runBudget, rows, candidates, runs, now,
                  writes, marked, calls,
                  syncedAt, otherJobs, applied, headers, catalogJobs >>

\* getCurrentAvailableQuantity after a stale attempt #1.
ReRead ==
  /\ pc = "read"
  /\ LET c == candidates[k]
         a == PushArgs(c)
     IN
     \E resp \in ReadResponses :
       /\ reqs' = Append(reqs, Req(c, "read", a.quantity, platform[a.inventoryItemId], resp))
       /\ IF resp.kind = "ok"
            THEN /\ current' = platform[a.inventoryItemId]
                 /\ pc' = "set2"
                 /\ UNCHANGED << k, updates, outcomes, exit >>
            ELSE Failed(c, resp)
  /\ UNCHANGED << sheet, platform, maxRowsPerRun, env, runBudget, rows, candidates, runs,
                  now, attempted, writes, marked, calls,
                  syncedAt, otherJobs, applied, headers, catalogJobs >>

\* Mutant of Attempt2: the retry takes effect on the platform even when it
\* comes back with userErrors.
Attempt2AppliedAnyway ==
  /\ pc = "set2"
  /\ LET c == candidates[k]
         a == PushArgs(c)
     IN
     \E resp \in SetResponses(platform[a.inventoryItemId], current) :
       /\ reqs' = Append(reqs, Req(c, "set", a.quantity, current, resp))
       /\ platform' = [platform EXCEPT ![a.inventoryItemId] = a.quantity]
       /\ IF resp.kind = "ok" THEN Succeeded(c, resp) ELSE Failed(c, resp)
  /\ UNCHANGED << sheet, maxRowsPerRun, env, runBudget, rows, candidates, runs, now,
                  attempted, writes, marked, calls,
                  syncedAt, otherJobs, applied, headers, catalogJobs >>

\* Attempt #2: runOnce(current); any userErrors left are thrown.
Attempt2 ==
  /\ pc = "set2"
  /\ LET c == candidates[k]
         a == PushArgs(c)
     IN
     \E resp \in SetResponses(platform[a.inventoryItemId], current) :
       /\ reqs' = Append(reqs, Req(c, "set", a.quantity, current, resp))
       /\ IF resp.kind = "ok"
            THEN /\ platform' = [platform EXCEPT ![a.inventoryItemId] = a.quantity]
                 /\ Succeeded(c, resp)
            ELSE /\ Failed(c, resp)
                 /\ UNCHANGED platform
  /\ UNCHANGED << sheet, maxRowsPerRun, env, runBudget, rows, candidates, runs, now,
                  attempted, writes, marked, calls,
                  syncedAt, otherJobs, applied, headers, catalogJobs >>

\* Mutant of WriteOutcome: the exit status reports the candidates' failures.
WriteOutcomeExitReportsErrors ==
  /\ pc = "outcome"
  /\ sheet' = ApplyUpdates(sheet, updates)
  /\ writes' = writes \o Logged(updates, "outcome")
  /\ pc' = "idle"
  /\ exit' = IF \E r \in DOMAIN outcomes : outcomes[r].kind # "ok" THEN "fail" ELSE "ok"
  /\ syncedAt' = [r \in DOMAIN syncedAt |->
                    IF r \in DOMAIN outcomes /\ outcomes[r].kind = "ok"
                      THEN runs ELSE syncedAt[r]]
  /\ calls' = Append(calls, "batchUpdate:outcome")
  /\ UNCHANGED << platform, maxRowsPerRun, env, runBudget, rows, candidates, k, current, updates,
                  runs, now, reqs, attempted, outcomes, marked,
                  otherJobs, applied, headers, catalogJobs >>

\* The outcome batchUpdate succeeds: "Done."
WriteOutcome ==
  /\ pc = "outcome"
  /\ sheet' = ApplyUpdates(sheet, updates)
  /\ writes' = writes \o Logged(updates, "outcome")
  /\ pc' = "idle"
  /\ exit' = "ok"
  /\ syncedAt' = [r \in DOMAIN syncedAt |->
                    IF r \in DOMAIN outcomes /\ outcomes[r].kind = "ok"
                      THEN runs ELSE syncedAt[r]]
  /\ calls' = Append(calls, "batchUpdate:outcome")
  /\ UNCHANGED << platform, maxRowsPerRun, env, runBudget, rows, candidates, k, current, updates,
                  runs, now, reqs, attempted, outcomes, marked,
                  otherJobs, applied, headers, catalogJobs >>

\* The outcome batchUpdate throws: main rejects, exitCode 1.
WriteOutcomeFails ==
  /\ pc = "outcome"
  /\ pc' = "idle"
  /\ exit' = "fail"
  /\ calls' = Append(calls, "batchUpdate:outcome")
  /\ UNCHANGED << sheet, platform, maxRowsPerRun, env, runBudget, rows, candidates, k, current,
                  updates, runs, now, reqs, attempted, outcomes, writes, marked,
                  syncedAt, otherJobs, applied, headers, catalogJobs >>

\* The process is killed while a run is in progress.
Crash ==
  /\ pc \in {"pending", "set1", "read", "set2", "outcome"}
  /\ pc' = "idle"
  /\ exit' = "crash"
  /\ applied' = applied \cup {r \in DOMAIN outcomes : outcomes[r].kind = "ok"}
  /\ UNCHANGED << sheet, platform, maxRowsPerRun, env, runBudget, rows, candidates, k, current,
                  updates, runs, now, reqs, attempted, outcomes, writes, marked, calls,
                  syncedAt, otherJobs, headers, catalogJobs >>

\* ------------------------------------------------------------- environment
\* A sale, restock or other admin edit changes an item's quantity on the platform
\* while the run has a request for that item ahead of it. The run reads the
\* platform only through its requests, so a change to any other item, or at any
\* other moment, commutes with the steps of the run.
PlatformChange ==
  /\ pc \in {"set1", "read", "set2"}
  /\ \E q \in Qty :
       /\ q # platform[candidates[k].inventoryItemId]
       /\ platform' = [platform EXCEPT ![candidates[k].inventoryItemId] = q]
  /\ UNCHANGED << sheet, maxRowsPerRun, env, runBudget, pc, rows, candidates, k, current, updates,
                  exit, runs, now, reqs, attempted, outcomes, writes, marked, calls,
                  syncedAt, otherJobs, applied, headers, catalogJobs >>

runVars == << maxRowsPerRun, env, runBudget, pc, rows, candidates, k, current, updates,
             exit, runs, now, reqs, attempted, outcomes, writes, marked, calls >>

\* Somebody types a desired quantity into the empty Desired_Available cell of
\* data row i, while the scheduler still has a run to trigger. Typing into a
\* row without an item id is left out: all three jobs skip such a row.
HumanEdit ==
  /\ runBudget > 0
  /\ \E i \in 1..Len(sheet), q \in Qty :
       /\ sheet[i].E = Blank
       /\ invItemGidOf(sheet[i].J) # None
       /\ sheet' = [sheet EXCEPT ![i].E = Num(q)]
       /\ syncedAt' = [syncedAt EXCEPT ![i + 1] = 0]
  /\ UNCHANGED << platform, runVars, otherJobs, applied, headers, catalogJobs >>

\* The other of two executions of the job gets the processor: the locals of
\* the running execution are put aside and those of the other one taken up.
Switch ==
  /\ parked' = [pc |-> pc, rows |-> rows, candidates |-> candidates, k |-> k,
                current |-> current, updates |-> updates, exit |-> exit, reqs |-> reqs,
                attempted |-> attempted, outcomes |-> outcomes, writes |-> writes,
                marked |-> marked, calls |-> calls]
  /\ pc' = parked.pc
  /\ rows' = parked.rows
  /\ candidates' = parked.candidates
  /\ k' = parked.k
  /\ current' = parked.current
  /\ updates' = parked.updates
  /\ exit' = parked.exit
  /\ reqs' = parked.reqs
  /\ attempted' = parked.attempted
  /\ outcomes' = parked.outcomes
  /\ writes' = parked.writes
  /\ marked' = parked.marked
  /\ calls' = parked.calls
  /\ UNCHANGED << sheet, platform, maxRowsPerRun, env, runBudget, runs, now, syncedAt,
                  otherJobs, applied, headers, worker, jobMax, catalog, appending, metaUpdates, paging >>

\* Somebody types another quantity over the one in the Desired_Available cell
\* of data row i.
HumanRetype ==
  /\ \E i \in 1..Len(sheet), q \in Qty :
       /\ sheet[i].E \notin {Blank, Num(q)}
       /\ invItemGidOf(sheet[i].J) # None
       /\ sheet' = [sheet EXCEPT ![i].E = Num(q)]
       /\ syncedAt' = [syncedAt EXCEPT ![i + 1] = 0]
  /\ UNCHANGED << platform, runVars, otherJobs, applied, headers, catalogJobs >>

\* The platform's inventory webhook puts a message with an item's present
\* quantity into the subscription, where it stays until the worker pulls it,
\* however late; the subscription holds one undelivered message at a time.
Webhook ==
  /\ msgs = {}
  /\ \E i \in Items :
       msgs' = {[inventory_item_id |-> i, available |-> platform[i]]}
  /\ UNCHANGED << sheet, platform, runVars, syncedAt, recPc, recRows, recUpdates, notified, applied, headers, catalogJobs >>

\* The header names of the Truth_Table layout, columns A to J.
idColumnHeader == "InventoryItem_ID"
availableColumnHeader == "Available"
MetaHeaders == {"Category", "Product_Title", "Variant_Title", "SKU"}
AllHeaders ==
  MetaHeaders \cup {"Desired_Available", availableColumnHeader, "ReverseSync_Status",
                    "ReverseSync_LastPushedAt", "ReverseSync_LastError", idColumnHeader}

\* The first data row whose InventoryItem_ID is exactly the gid, 0 if none.
RECURSIVE TargetRowIndex(_, _, _)
TargetRowIndex(rs, gid, i) ==
  IF i > Len(rs) THEN 0
  ELSE IF rs[i].J = gid THEN i
  ELSE TargetRowIndex(rs, gid, i + 1)

\* Mutant of updateSheetForInventoryItem: the quantity lands in Desired_Available.
updateSheetDesired(sh, inventoryItemId, available) ==
  LET targetRowIndex == TargetRowIndex(sh, Gid(inventoryItemId), 1)
  IN  IF targetRowIndex = 0 THEN sh
      ELSE [sh EXCEPT ![targetRowIndex].E = NumStr(available)]

\* Mutant of updateSheetForInventoryItem: every row with the item id is written.
updateSheetEveryMatch(sh, inventoryItemId, available) ==
  [i \in 1..Len(sh) |->
     IF sh[i].J = Gid(inventoryItemId) THEN [sh[i] EXCEPT !.F = NumStr(available)] ELSE sh[i]]

\* updateSheetForInventoryItem: only the Available cell of the row is written;
\* nothing is written when a header is not found or no row has the item id.
updateSheetForInventoryItem(sh, inventoryItemId, available) ==
  LET targetRowIndex == TargetRowIndex(sh, Gid(inventoryItemId), 1)
  IN  IF idColumnHeader \notin headers \/ availableColumnHeader \notin headers THEN sh
      ELSE IF targetRowIndex = 0 THEN sh
      ELSE [sh EXCEPT ![targetRowIndex].F = NumStr(available)]

\* The forward-sync worker handles one pulled message and acknowledges it.
ForwardSync ==
  /\ \E m \in msgs :
       /\ sheet' = updateSheetForInventoryItem(sheet, m.inventory_item_id, m.available)
       /\ msgs' = msgs \ {m}
  /\ UNCHANGED << platform, runVars, syncedAt, recPc, recRows, recUpdates, notified, applied, headers, catalogJobs >>

\* The update of the sheet throws (the read or the write of the Sheets API
\* fails): the error is caught and logged, and the message is acknowledged.
ForwardSyncUpdateFails ==
  /\ \E m \in msgs : msgs' = msgs \ {m}
  /\ UNCHANGED << sheet, platform, runVars, syncedAt, recPc, recRows, recUpdates, notified, applied, headers, catalogJobs >>

\* The items that have a row in the sheet.
TrackedItems == {i \in Items : \E r \in 1..Len(sheet) : sheet[r].J = Gid(i)}

\* A sale, a restock or an admin edit changes a tracked item's quantity on the
\* platform, at any moment.
InventoryChange ==
  /\ \E i \in TrackedItems, q \in Qty :
       /\ q # platform[i]
       /\ platform' = [platform EXCEPT ![i] = q]
  /\ UNCHANGED << sheet, runVars, syncedAt, otherJobs, applied, applied, headers, catalogJobs >>

\* The platform's inventory webhook for item i: the quantity differs from the
\* one last sent, and a message with the present quantity goes into the
\* subscription once the worker has pulled the message before it.
WebhookOnChange(i) ==
  /\ msgs = {}
  /\ notified[i] # platform[i]
  /\ msgs' = {[inventory_item_id |-> i, available |-> platform[i]]}
  /\ notified' = [notified EXCEPT ![i] = platform[i]]
  /\ UNCHANGED << sheet, platform, runVars, syncedAt, recPc, recRows, recUpdates, applied, headers, catalogJobs >>

WebhookOnAnyChange == \E i \in Items : WebhookOnChange(i)

\* The defaults of MAX_ROWS_PER_RUN in the reconcile, append and metadata jobs.
ReconcileMaxRows == 200
AppendMaxRows == 200
MetadataMaxRows == 500
DefaultJobMax ==
  [reconcile |-> ReconcileMaxRows, append |-> AppendMaxRows, metadata |-> MetadataMaxRows]

\* The details of an item the platform has no product data for.
NoDetails == [productType |-> Blank, productTitle |-> Blank, variantTitle |-> Blank, sku |-> Blank]

\* The reconcile loop from index i on; acc is its updates array so far.
RECURSIVE ReconcileFrom(_, _, _, _, _)
ReconcileFrom(rs, availableMap, i, touched, acc) ==
  IF i > Len(rs) \/ touched >= jobMax.reconcile THEN acc
  ELSE
    LET invItemId == invItemGidOf(rs[i].J)
    IN  IF invItemId = None THEN ReconcileFrom(rs, availableMap, i + 1, touched, acc)
        ELSE IF invItemId[1] \notin DOMAIN availableMap
          THEN ReconcileFrom(rs, availableMap, i + 1, touched, acc)
        ELSE IF normalizeInt(rs[i].F) # Some(availableMap[invItemId[1]])
          THEN ReconcileFrom(rs, availableMap, i + 1, touched + 1,
                 acc \o << Upd(i + 1, "F", Num(availableMap[invItemId[1]])),
                           Upd(i + 1, "I", Blank) >>)
        ELSE ReconcileFrom(rs, availableMap, i + 1, touched, acc)

\* The reconcile job reads the sheet.
ReconcileRead ==
  /\ recPc = "idle"
  /\ recPc' = "map"
  /\ recRows' = sheet
  /\ UNCHANGED << sheet, platform, runVars, syncedAt, msgs, recUpdates, notified, applied, headers, catalogJobs >>

\* The reconcile job reads the location's quantities and builds its updates;
\* with nothing to update it is done.
ReconcileMap ==
  /\ recPc = "map"
  /\ recUpdates' = ReconcileFrom(recRows, platform, 1, 0, << >>)
  /\ recPc' = IF recUpdates' = << >> THEN "idle" ELSE "write"
  /\ recRows' = << >>
  /\ UNCHANGED << sheet, platform, runVars, syncedAt, msgs, notified, applied, headers, catalogJobs >>

\* The reconcile job's batchUpdate.
ReconcileWrite ==
  /\ recPc = "write"
  /\ sheet' = ApplyUpdates(sheet, recUpdates)
  /\ recPc' = "idle"
  /\ recUpdates' = << >>
  /\ UNCHANGED << platform, runVars, syncedAt, msgs, recRows, notified, applied, headers, catalogJobs >>

\* ------------------------------------------------------------- metadata job
Str(n) == [k |-> "str", n |-> n]               \* the n-th of some distinct non-numeric texts
Digits(n) == [k |-> "digits", n |-> n]         \* the string of the decimal digits of n

\* String(value ?? ""): the number n and the string of its digits print alike.
StringOf(value) == IF value.k = "num" THEN Digits(value.n) ELSE value

\* Mutant of shouldUpdateValue: an empty platform value overwrites the cell.
shouldUpdateValueEmptyToo(currentValue, nextValue) ==
  StringOf(currentValue) # StringOf(nextValue)

\* shouldUpdateValue: never for an empty platform value, else when the strings differ.
shouldUpdateValue(currentValue, nextValue) ==
  /\ nextValue # Blank
  /\ StringOf(currentValue) # StringOf(nextValue)

\* detailsMap.get(id): the details of the item of an id cell, None without one.
detailsOf(cell) ==
  LET id == invItemGidOf(cell)
  IN  IF id # None /\ id[1] \in DOMAIN catalog THEN Some(catalog[id[1]]) ELSE None

\* Mutant of MetaChanges: the sku lands in the Available column.
MetaChangesShifted(row, details) ==
  << [col |-> "A", value |-> details.productType, current |-> row.A],
     [col |-> "B", value |-> details.productTitle, current |-> row.B],
     [col |-> "C", value |-> details.variantTitle, current |-> row.C],
     [col |-> "F", value |-> details.sku, current |-> row.D] >>

\* The changes array of one row.
MetaChanges(row, details) ==
  << [col |-> "A", value |-> details.productType, current |-> row.A],
     [col |-> "B", value |-> details.productTitle, current |-> row.B],
     [col |-> "C", value |-> details.variantTitle, current |-> row.C],
     [col |-> "D", value |-> details.sku, current |-> row.D] >>

\* The updates pushed for the changes of the row with 1-based index rowIndex.
RECURSIVE ChangeUpdates(_, _)
ChangeUpdates(rowIndex, changes) ==
  IF changes = << >> THEN << >>
  ELSE LET change == Head(changes)
       IN  (IF shouldUpdateValue(change.current, change.value)
              THEN << Upd(rowIndex, change.col, change.value) >> ELSE << >>)
           \o ChangeUpdates(rowIndex, Tail(changes))

\* The metadata loop from data row i on; acc is its updates array so far.
RECURSIVE MetadataFrom(_, _, _, _)
MetadataFrom(rs, i, updatedRows, acc) ==
  IF i > Len(rs) \/ updatedRows >= jobMax.metadata THEN acc
  ELSE IF rs[i].J = Blank \/ detailsOf(rs[i].J) = None
    THEN MetadataFrom(rs, i + 1, updatedRows, acc)
  ELSE LET rowUpdates == ChangeUpdates(i + 1, MetaChanges(rs[i], detailsOf(rs[i].J)[1]))
       IN  MetadataFrom(rs, i + 1, IF rowUpdates # << >> THEN updatedRows + 1 ELSE updatedRows,
                        acc \o rowUpdates)

\* A metadata run reads the sheet and the product details and builds its
\* updates; it throws when a header is missing and ends when nothing differs.
MetadataRead ==
  /\ metaUpdates = << >>
  /\ ({idColumnHeader} \cup MetaHeaders) \subseteq headers
  /\ metaUpdates' = MetadataFrom(sheet, 1, 0, << >>)
  /\ UNCHANGED << sheet, platform, runVars, syncedAt, otherJobs, applied, headers,
                  worker, jobMax, catalog, parked, appending, paging >>

\* The metadata run's batchUpdate.
MetadataWrite ==
  /\ metaUpdates # << >>
  /\ sheet' = ApplyUpdates(sheet, metaUpdates)
  /\ metaUpdates' = << >>
  /\ UNCHANGED << platform, runVars, syncedAt, otherJobs, applied, headers,
                  worker, jobMax, catalog, parked, appending, paging >>

\* ------------------------------------------------------------- append job
\* existingIds: the trimmed id of every row whose id cell is not empty.
existingIds(rs) == {invItemGidOf(rs[i].J) : i \in {r \in 1..Len(rs) : rs[r].J # Blank}}

\* missingIds: the items of the location's map, in its order, that are not in
\* the sheet; the cap is tested after the push.
RECURSIVE MissingFrom(_, _, _)
MissingFrom(existing, i, acc) ==
  IF i \notin DOMAIN platform THEN acc
  ELSE IF Some(i) \in existing THEN MissingFrom(existing, i + 1, acc)
  ELSE IF Len(acc) + 1 >= jobMax.append THEN Append(acc, i)
  ELSE MissingFrom(existing, i + 1, Append(acc, i))

\* buildRowFromHeaders for item i: a value under each header the sheet has.
NewRow(i) ==
  LET under(header, val) == IF header \in headers THEN val ELSE Blank
  IN  [A |-> under("Category", catalog[i].productType),
       B |-> under("Product_Title", catalog[i].productTitle),
       C |-> under("Variant_Title", catalog[i].variantTitle),
       D |-> under("SKU", catalog[i].sku),
       E |-> Blank,
       F |-> under(availableColumnHeader, Num(platform[i])),
       G |-> Blank, H |-> Blank, I |-> Blank,
       J |-> under(idColumnHeader, Gid(i))]

\* newRows: one row per missing id, the cap again tested after the push.
RECURSIVE NewRowsFrom(_, _, _)
NewRowsFrom(missingIds, n, acc) ==
  IF n > Len(missingIds) THEN acc
  ELSE IF Len(acc) + 1 >= jobMax.append THEN Append(acc, NewRow(missingIds[n]))
  ELSE NewRowsFrom(missingIds, n + 1, Append(acc, NewRow(missingIds[n])))

\* An append run reads the sheet, the location's quantities and the details
\* of the missing items and builds its rows; with nothing missing it ends.
\* At most MaxRuns runs are between their read and their write.
AppendRead ==
  /\ Len(appending) < MaxRuns
  /\ idColumnHeader \in headers
  /\ LET missingIds == MissingFrom(existingIds(sheet), 1, << >>)
     IN  appending' = IF missingIds = << >> THEN appending
                      ELSE Append(appending, NewRowsFrom(missingIds, 1, << >>))
  /\ UNCHANGED << sheet, platform, runVars, syncedAt, otherJobs, applied, headers,
                  worker, jobMax, catalog, parked, metaUpdates, paging >>

\* Mutant of AppendWrite: the rows are inserted above the existing rows.
AppendWriteOnTop ==
  /\ \E n \in 1..Len(appending) :
       /\ sheet' = appending[n] \o sheet
       /\ appending' = [m \in 1..(Len(appending) - 1) |->
                          IF m < n THEN appending[m] ELSE appending[m + 1]]
  /\ UNCHANGED << platform, runVars, syncedAt, otherJobs, applied, headers,
                  worker, jobMax, catalog, parked, metaUpdates, paging >>

\* The values.append of one of the runs: its rows go after the last row.
AppendWrite ==
  /\ \E n \in 1..Len(appending) :
       /\ sheet' = sheet \o appending[n]
       /\ appending' = [m \in 1..(Len(appending) - 1) |->
                          IF m < n THEN appending[m] ELSE appending[m + 1]]
  /\ UNCHANGED << platform, runVars, syncedAt, otherJobs, applied, headers,
                  worker, jobMax, catalog, parked, metaUpdates, paging >>

\* ------------------------------------------------------------- location map
\* inventoryLevels(first: 250, ...) and the default of maxPages.
PageFirst == 250
maxPages == 10

\* The numbers of levels a location may have: a number of full pages, up to
\* one more than maxPages, alone or with one more level.
LevelCounts == {p * PageFirst + d : p \in 0..(maxPages + 1), d \in {0, 1}}

\* The available quantity of the n-th level of the location.
LevelQty(n) == n % (MaxQty + 1)

\* buildLocationAvailableMap starts: an empty map, no cursor.
StartMap ==
  /\ mapPc = "idle"
  /\ \E n \in LevelCounts : levels' = n
  /\ page' = 0
  /\ after' = 0
  /\ map' = << >>
  /\ mapPc' = "paging"
  /\ UNCHANGED << sheet, platform, runVars, syncedAt, otherJobs, applied, headers,
                  worker, jobMax, catalog, parked, appending, metaUpdates >>

\* One turn of the loop: the page after the cursor is put into the map; the
\* loop ends when the page has no next page or the counter reaches maxPages.
FetchPage ==
  /\ mapPc = "paging"
  /\ LET last == Min(after + PageFirst, levels)
         hasNextPage == last < levels
     IN  /\ map' = [n \in 1..last |-> LevelQty(n)]
         /\ after' = IF hasNextPage THEN last ELSE after
         /\ page' = IF hasNextPage THEN page + 1 ELSE page
         /\ mapPc' = IF hasNextPage /\ page + 1 < maxPages THEN "paging" ELSE "done"
  /\ UNCHANGED << sheet, platform, runVars, syncedAt, otherJobs, applied, headers,
                  worker, jobMax, catalog, parked, appending, metaUpdates, levels >>

\* ------------------------------------------------------------- forward-sync batch
\* maxMessages of the pull, kept small.
MaxBatch == 2

\* The orders in which the subscription may hand out the messages of set S.
Orderings(S) ==
  {q \in [1..Cardinality(S) -> S] : \A a, b \in 1..Cardinality(S) : a # b => q[a] # q[b]}

\* subClient.pull: up to maxMessages of the messages that are in the
\* subscription, in some order; they stay there until acknowledged.
Pull ==
  /\ pos > Len(receivedMessages)
  /\ msgs # {}
  /\ \E S \in SUBSET msgs :
       /\ S # {} /\ Cardinality(S) <= MaxBatch
       /\ (Cardinality(S) < MaxBatch => S = msgs)
       /\ \E q \in Orderings(S) : receivedMessages' = q
  /\ pos' = 1
  /\ fwdLog' = << >>
  /\ UNCHANGED << sheet, platform, runVars, syncedAt, otherJobs, applied, headers,
                  jobMax, catalog, parked, appending, metaUpdates, paging >>

\* What the loop logs for the message at pos, given the event of its update.
Handled(event) ==
  LET received == receivedMessages[pos]
  IN  fwdLog \o << [ev |-> event, n |-> pos] >>
             \o (IF received.ackId THEN << [ev |-> "ack", n |-> pos] >> ELSE << >>)

\* Mutant of HandleUpdateFails: a message whose update threw is not acknowledged.
HandleUpdateFailsNoAck ==
  /\ pos <= Len(receivedMessages)
  /\ receivedMessages[pos].data = "json"
  /\ fwdLog' = fwdLog \o << [ev |-> "failed", n |-> pos] >>
  /\ pos' = pos + 1
  /\ UNCHANGED << sheet, msgs, receivedMessages, platform, runVars, syncedAt, recPc, recRows,
                  recUpdates, notified, applied, headers,
                  jobMax, catalog, parked, appending, metaUpdates, paging >>

\* One turn of the message loop: the payload is parsed and the sheet updated
\* (a payload that is not JSON throws and is logged, a message without data is
\* passed over), then the message is acknowledged when it has an ackId.
HandleMessage ==
  /\ pos <= Len(receivedMessages)
  /\ LET received == receivedMessages[pos]
     IN  /\ sheet' = IF received.data = "json"
                       THEN updateSheetForInventoryItem(sheet, received.inventory_item_id,
                                                        received.available)
                       ELSE sheet
         /\ fwdLog' = Handled(CASE received.data = "json" -> "updated"
                                [] received.data = "garbage" -> "failed"
                                [] OTHER -> "skipped")
         /\ msgs' = IF received.ackId THEN msgs \ {received} ELSE msgs
  /\ pos' = pos + 1
  /\ UNCHANGED << receivedMessages, platform, runVars, syncedAt, recPc, recRows, recUpdates,
                  notified, applied, headers,
                  jobMax, catalog, parked, appending, metaUpdates, paging >>

\* The same turn when the sheet update throws: the error is logged and the
\* message acknowledged all the same.
HandleUpdateFails ==
  /\ pos <= Len(receivedMessages)
  /\ receivedMessages[pos].data = "json"
  /\ fwdLog' = Handled("failed")
  /\ msgs' = IF receivedMessages[pos].ackId THEN msgs \ {receivedMessages[pos]} ELSE msgs
  /\ pos' = pos + 1
  /\ UNCHANGED << sheet, receivedMessages, platform, runVars, syncedAt, recPc, recRows,
                  recUpdates, notified, applied, headers,
                  jobMax, catalog, parked, appending, metaUpdates, paging >>

\* ------------------------------------------------------------- specifications
Row(e, f, j) ==
  [A |-> Blank, B |-> Blank, C |-> Blank, D |-> Blank,
   E |-> e, F |-> f, G |-> Blank, H |-> Blank, I |-> Blank, J |-> j]
CleanRow(i, e) == Row(e, Num(0), Gid(i))

InitIdle ==
  /\ pc = "idle"
  /\ rows = << >>
  /\ candidates = << >>
  /\ k = 0
  /\ current = 0
  /\ updates = << >>
  /\ exit = "none"
  /\ runs = 0
  /\ now = 0
  /\ reqs = << >>
  /\ attempted = {}
  /\ outcomes = << >>
  /\ writes = << >>
  /\ marked = {}
  /\ calls = << >>
  /\ syncedAt = [r \in {i + 1 : i \in 1..NumRows} |-> 0]
  /\ recPc = "idle"
  /\ recRows = << >>
  /\ recUpdates = << >>
  /\ notified = [i \in Items |-> 0]
  /\ applied = {}
  /\ appending = << >>
  /\ metaUpdates = << >>
  /\ levels = 0
  /\ page = 0
  /\ after = 0
  /\ map = << >>
  /\ mapPc = "idle"
  /\ receivedMessages = << >>
  /\ pos = 1
  /\ fwdLog = << >>
  /\ parked = [pc |-> "idle", rows |-> << >>, candidates |-> << >>, k |-> 0, current |-> 0,
               updates |-> << >>, exit |-> "none", reqs |-> << >>, attempted |-> {},
               outcomes |-> << >>, writes |-> << >>, marked |-> {}, calls |-> << >>]

\* No job has started and the subscription is empty.
InitJobs ==
  /\ InitIdle
  /\ msgs = {}

\* No job has started and the platform holds no product data.
InitRun ==
  /\ InitJobs
  /\ catalog = [i \in Items |-> NoDetails]

\* What somebody typed into Desired_Available of data row i.
Typed(i) == Num(((i - 1) % MaxQty) + 1)

\* One run over a sheet whose Available column is in step with the platform
\* and in which every row has been edited; the platform is free to change
\* under the run and to refuse any request.
Init ==
  /\ InitRun
  /\ jobMax = DefaultJobMax
  /\ headers = AllHeaders
  /\ env = Params
  /\ platform = [i \in Items |-> 0]
  /\ sheet = [i \in 1..NumRows |-> CleanRow(i, Typed(i))]
  /\ maxRowsPerRun = NumRows
  /\ runBudget = 1

Next ==
  \/ StartRun
  \/ MarkPending
  \/ MarkPendingFails
  \/ Attempt1
  \/ ReRead
  \/ Attempt2
  \/ WriteOutcome
  \/ WriteOutcomeFails
  \/ Crash
  \/ PlatformChange

Spec == Init /\ [][Next]_vars

\* What data row i of a sheet may hold when a run reads it: desired typed as a
\* number (equal to Available when 0), left blank, typed as text, as a fraction
\* or as a numeric string; Available blank or text; the item id missing, blank
\* characters only, or padded.
ScanRows(i) ==
  {CleanRow(i, Num(q)) : q \in Qty} \cup
  {CleanRow(i, Blank), CleanRow(i, Text), CleanRow(i, Frac(0)), CleanRow(i, NumStr(0)),
   Row(Num(1), Blank, Gid(i)), Row(Num(1), Text, Gid(i)),
   Row(Num(1), Num(0), Blank), Row(Num(1), Num(0), Spaces),
   Row(Frac(1), NumStr(0), GidPad(i))}

\* One run over any such sheet, under any MAX_ROWS_PER_RUN from 0 up to the
\* number of rows; the platform holds what the Available column says.
InitScan ==
  /\ InitRun
  /\ jobMax = DefaultJobMax
  /\ headers = AllHeaders
  /\ env = Params
  /\ platform = [i \in Items |-> 0]
  /\ sheet \in [1..NumRows -> UNION {ScanRows(i) : i \in 1..NumRows}]
  /\ \A i \in 1..NumRows : sheet[i] \in ScanRows(i)
  /\ maxRowsPerRun \in 0..NumRows
  /\ runBudget = 1

NextScan ==
  \/ StartRun
  \/ MarkPending
  \/ MarkPendingFails
  \/ Attempt1
  \/ WriteOutcome
  \/ WriteOutcomeFails
  \/ Crash

SpecScan == InitScan /\ [][NextScan]_vars

\* Runs in immediate succession: nobody edits the sheet and nothing but the
\* runs' own pushes changes the platform, which may already hold a quantity
\* the Available column has not caught up with.
InitTwice ==
  /\ InitRun
  /\ jobMax = DefaultJobMax
  /\ headers = AllHeaders
  /\ env = Params
  /\ platform \in [Items -> {0, MaxQty}]
  /\ sheet = [i \in 1..NumRows |-> CleanRow(i, Typed(i))]
  /\ maxRowsPerRun \in 1..NumRows
  /\ runBudget = MaxRuns

NextTwice ==
  \/ StartRun
  \/ MarkPending
  \/ MarkPendingFails
  \/ Attempt1
  \/ ReRead
  \/ Attempt2
  \/ WriteOutcome
  \/ WriteOutcomeFails

SpecTwice == InitTwice /\ [][NextTwice]_vars

\* The three jobs and the people at the sheet, interleaved in every order, on a
\* sheet whose first row is linked to its item and edited; the other rows have
\* no item id yet, while the platform has their items.
InitLoop ==
  /\ InitRun
  /\ jobMax = DefaultJobMax
  /\ headers = AllHeaders
  /\ env = Params
  /\ platform = [i \in Items |-> 0]
  /\ sheet = [i \in 1..NumRows |->
                IF i = 1 THEN CleanRow(i, Typed(i)) ELSE Row(Blank, Blank, Blank)]
  /\ maxRowsPerRun = NumRows
  /\ runBudget = MaxRuns

NextLoop ==
  \/ StartRun
  \/ MarkPending
  \/ Attempt1
  \/ ReRead
  \/ Attempt2
  \/ WriteOutcome
  \/ HumanEdit
  \/ Webhook
  \/ ForwardSync
  \/ ReconcileRead
  \/ ReconcileMap
  \/ ReconcileWrite

SpecLoop == InitLoop /\ [][NextLoop]_vars

\* Runs with the forward sync and the reconcile job in between, nobody at the
\* sheet; the platform may hold any quantity of the linked row's item when the
\* first run starts.
InitRetry ==
  /\ InitRun
  /\ jobMax = DefaultJobMax
  /\ headers = AllHeaders
  /\ env = Params
  /\ platform \in [Items -> Qty]
  /\ \A i \in Items : i # 1 => platform[i] = 0
  /\ sheet = [i \in 1..NumRows |->
                IF i = 1 THEN CleanRow(i, Typed(i)) ELSE Row(Blank, Blank, Blank)]
  /\ maxRowsPerRun = NumRows
  /\ runBudget = MaxRuns

NextRetry ==
  \/ StartRun
  \/ MarkPending
  \/ Attempt1
  \/ ReRead
  \/ Attempt2
  \/ WriteOutcome
  \/ Webhook
  \/ ForwardSync
  \/ ReconcileRead
  \/ ReconcileMap
  \/ ReconcileWrite

SpecRetry == InitRetry /\ [][NextRetry]_vars

\* Runs scheduled for ever, working through a backlog: every row is edited, the
\* cap may be below the number of rows, the platform may refuse any request,
\* and the sheet writes succeed. The scheduler keeps triggering runs and every
\* step of a run that has started is taken.
InitBacklog ==
  /\ InitRun
  /\ jobMax = DefaultJobMax
  /\ headers = AllHeaders
  /\ env = Params
  /\ platform = [i \in Items |-> 0]
  /\ sheet = [i \in 1..NumRows |-> CleanRow(i, Typed(i))]
  /\ maxRowsPerRun \in 1..NumRows
  /\ runBudget = Forever

NextBacklog ==
  \/ StartRun
  \/ MarkPending
  \/ Attempt1
  \/ WriteOutcome

SpecBacklog ==
  /\ InitBacklog
  /\ [][NextBacklog]_vars
  /\ WF_vars(StartRun)
  /\ WF_vars(MarkPending)
  /\ WF_vars(Attempt1)
  /\ WF_vars(WriteOutcome)

\* The forward sync under a platform that changes at any moment and reverse-sync
\* runs that push: row 1 is linked to its item and edited, Available is in
\* step with the platform at the start. Every change is
\* published, the worker keeps pulling, a sheet update that keeps being tried
\* succeeds in the end, and every step of a run that has started is taken.
InitForward ==
  /\ InitRun
  /\ jobMax = DefaultJobMax
  /\ headers = AllHeaders
  /\ env = Params
  /\ platform = [i \in Items |-> 0]
  /\ sheet = [i \in 1..NumRows |->
                IF i = 1 THEN CleanRow(i, Typed(i)) ELSE Row(Blank, Blank, Blank)]
  /\ maxRowsPerRun = NumRows
  /\ runBudget = 1

NextForward ==
  \/ InventoryChange
  \/ WebhookOnAnyChange
  \/ ForwardSync
  \/ ForwardSyncUpdateFails
  \/ StartRun
  \/ MarkPending
  \/ Attempt1
  \/ WriteOutcome

FairForward ==
  /\ \A i \in Items : SF_vars(WebhookOnChange(i))
  /\ WF_vars(ForwardSync \/ ForwardSyncUpdateFails)
  /\ SF_vars(ForwardSync)
  /\ WF_vars(MarkPending)
  /\ WF_vars(Attempt1)
  /\ WF_vars(WriteOutcome)

SpecForward == InitForward /\ [][NextForward]_vars /\ FairForward

\* A run that may be killed at any point and is run again, with the forward
\* sync in between: row 1 is linked to its item and edited, Available is in
\* step with the platform at the start.
InitRerun ==
  /\ InitRun
  /\ jobMax = DefaultJobMax
  /\ headers = AllHeaders
  /\ env = Params
  /\ platform = [i \in Items |-> 0]
  /\ sheet = [i \in 1..NumRows |->
                IF i = 1 THEN CleanRow(i, Typed(i)) ELSE Row(Blank, Blank, Blank)]
  /\ maxRowsPerRun = NumRows
  /\ runBudget = MaxRuns

NextRerun ==
  \/ StartRun
  \/ MarkPending
  \/ Attempt1
  \/ ReRead
  \/ Attempt2
  \/ WriteOutcome
  \/ Crash
  \/ WebhookOnAnyChange
  \/ ForwardSync

SpecRerun == InitRerun /\ [][NextRerun]_vars

\* What data row i of a sheet may hold when the forward sync reads it: the item
\* id of item 1 or 2 (so that two rows may share one), a padded id or none.
MsgRows ==
  {Row(e, f, j) : e \in {Blank, Num(1)}, f \in {Blank, Num(0)},
                  j \in {Gid(1), Gid(2), GidPad(1), Blank}}

\* Messages for any item pulled by the forward sync, over any such sheet, with
\* or without the two headers it looks for.
InitMsg ==
  /\ InitRun
  /\ jobMax = DefaultJobMax
  /\ env = Params
  /\ headers \in {AllHeaders \ X : X \in SUBSET {idColumnHeader, availableColumnHeader}}
  /\ platform \in [Items -> {0, MaxQty}]
  /\ sheet \in [1..NumRows -> MsgRows]
  /\ maxRowsPerRun = NumRows
  /\ runBudget = 0

NextMsg ==
  \/ Webhook
  \/ ForwardSync

SpecMsg == InitMsg /\ [][NextMsg]_vars

\* What data row i of a sheet may hold when the reconcile job reads it: its
\* item's id, plain or padded, no id, or the id of an item without a level at
\* the location; Available a number, blank or text.
ReconcileRows(i) ==
  {Row(Blank, f, j) : f \in {Num(0), Blank, Text},
                      j \in {Gid(i), GidPad(i), Blank, Gid(NumRows + 1)}}

\* Reconcile runs alone, over any such sheet and any platform quantities,
\* under a MAX_ROWS_PER_RUN from 1 up to the number of rows or the default.
InitReconcile ==
  /\ InitRun
  /\ headers = AllHeaders
  /\ jobMax \in {[DefaultJobMax EXCEPT !.reconcile = n] : n \in (1..NumRows) \cup {ReconcileMaxRows}}
  /\ env = Params
  /\ platform \in [Items -> {0, MaxQty}]
  /\ sheet \in [1..NumRows -> UNION {ReconcileRows(i) : i \in 1..NumRows}]
  /\ \A i \in 1..NumRows : sheet[i] \in ReconcileRows(i)
  /\ maxRowsPerRun = NumRows
  /\ runBudget = 0

NextReconcile ==
  \/ ReconcileRead
  \/ ReconcileMap
  \/ ReconcileWrite

SpecReconcile == InitReconcile /\ [][NextReconcile]_vars

\* One run under any set of environment variables; an unset MAX_ROWS_PER_RUN
\* gives the default.
InitConfig ==
  /\ InitRun
  /\ jobMax = DefaultJobMax
  /\ headers = AllHeaders
  /\ env \in SUBSET Params
  /\ platform = [i \in Items |-> 0]
  /\ sheet = [i \in 1..NumRows |-> CleanRow(i, Typed(i))]
  /\ maxRowsPerRun = IF "MAX_ROWS_PER_RUN" \in env THEN NumRows ELSE DefaultMaxRows
  /\ runBudget = 1

NextConfig ==
  \/ ConfigFails
  \/ ReadFails
  \/ StartRun
  \/ MarkPending
  \/ MarkPendingFails
  \/ Attempt1
  \/ WriteOutcome
  \/ WriteOutcomeFails

SpecConfig == InitConfig /\ [][NextConfig]_vars

\* ------------------------------------------------------------- helpers of the properties
Range(f) == {f[x] : x \in DOMAIN f}
CandidateRows == {candidates[j].rowIndex1Based : j \in 1..Len(candidates)}
CandidateOf(r) == CHOOSE c \in Range(candidates) : c.rowIndex1Based = r
StaleLogged(q) == q.kind = "userErrors" /\ STALE \in Range(q.codes)
AcceptedSet(q) == q.op = "set" /\ q.kind = "ok"
\* The candidate that reqs is about is still inside shopifyInventorySetAvailable.
InFlight == pc \in {"read", "set2"}
\* The step in which the outcome batchUpdate is applied.
OutcomeStep == pc = "outcome" /\ pc' = "idle" /\ exit' = "ok"
\* The cells a pass of the current run wrote in a sheet row, as (column, value) pairs.
Written(log, r, pass) ==
  {<< log[j].col, log[j].val >> : j \in {x \in 1..Len(log) : log[x].row = r /\ log[x].pass = pass}}
WrittenCount(log, r, pass) ==
  Cardinality({x \in 1..Len(log) : log[x].row = r /\ log[x].pass = pass})

\* A cell that holds an integer, that integer, and a cell that holds an item id.
Parses(cell) == cell.k \in {"num", "numstr", "frac"}
IntOf(cell) == cell.n
HasId(cell) == cell.k \in {"gid", "gidpad"}
Untouched(r) ==
  /\ r \notin marked
  /\ r \notin attempted
  /\ \A j \in 1..Len(writes) : writes[j].row # r
  /\ \A j \in 1..Len(updates) : updates[j].row # r
  /\ sheet[r - 1] = rows[r - 1]
\* The rows a scan ought to select, and the first n of a set of rows.
Eligible(row) ==
  HasId(row.J) /\ Parses(row.E) /\ Parses(row.F) /\ IntOf(row.E) # IntOf(row.F)
EligibleRows(rs) == {i + 1 : i \in {x \in 1..Len(rs) : Eligible(rs[x])}}
FirstOf(S, n) == {r \in S : Cardinality({x \in S : x < r}) < n}

\* ------------------------------------------------------------- C1
\* C1: for every candidate the first request is a conditional set with
\* quantity = desired and compareQuantity = the row's Available of the snapshot;
\* a re-read follows if and only if that attempt was answered with
\* COMPARE_QUANTITY_STALE, and a second conditional set (same desired,
\* compareQuantity = the value re-read) follows the re-read; there are never
\* more than two sets or one re-read, and whatever answers the second set
\* closes the candidate.
C1_CasProtocol ==
  reqs # << >> =>
    LET c == CandidateOf(reqs[1].row) IN
    /\ reqs[1].op = "set"
    /\ reqs[1].quantity = c.desired
    /\ reqs[1].cmp = normalizeInt(sheet[c.rowIndex1Based - 1].F)[1]
    /\ Len(reqs) <= 3
    /\ Len(reqs) >= 2 => StaleLogged(reqs[1]) /\ reqs[2].op = "read"
    /\ Len(reqs) = 3 =>
         /\ reqs[2].kind = "ok"
         /\ reqs[3].op = "set"
         /\ reqs[3].quantity = c.desired
         /\ reqs[3].cmp = reqs[2].live
         /\ ~InFlight
    /\ (StaleLogged(reqs[1]) /\ ~InFlight /\ exit # "crash") =>
         /\ Len(reqs) >= 2
         /\ reqs[2].kind = "ok" => Len(reqs) = 3
    /\ (Len(reqs) = 1 /\ ~StaleLogged(reqs[1])) => ~InFlight

\* A candidate whose retry was answered stale again, and which is closed.
C1_Witness ==
  /\ Len(reqs) = 3
  /\ StaleLogged(reqs[3])
  /\ pc = "outcome"

\* ------------------------------------------------------------- C2
\* C2 as claimed: when the platform's quantity differs from the row's baseline
\* at the first attempt, no conditional set of that candidate replaces the
\* platform's quantity by desired.
C2_NeverOverwritesChanged ==
  (reqs # << >> /\ reqs[1].live # reqs[1].cmp) =>
    \A j \in 1..Len(reqs) : ~(AcceptedSet(reqs[j]) /\ reqs[j].live # reqs[j].quantity)

\* C2 amended: the platform accepts a conditional set of the run only when its
\* compareQuantity is the platform's quantity at that instant; the first
\* attempt, guarded by the row's baseline, is never accepted over a changed
\* quantity, and an accepted retry was guarded by the quantity re-read.
C2_AcceptedOnlyOnMatch ==
  \A j \in 1..Len(reqs) :
    AcceptedSet(reqs[j]) =>
      /\ reqs[j].cmp = reqs[j].live
      /\ j = 1 => reqs[j].cmp = normalizeInt(sheet[reqs[j].row - 1].F)[1]
      /\ j > 1 => j = 3 /\ reqs[j].cmp = reqs[2].live

\* The retry overwrote a quantity that had changed since the row was refreshed.
C2_Witness ==
  /\ Len(reqs) = 3
  /\ AcceptedSet(reqs[3])
  /\ reqs[1].live # reqs[1].cmp
  /\ reqs[3].live # reqs[3].quantity

\* ------------------------------------------------------------- C3
\* C3: for a candidate whose push was accepted (first attempt or retry) the
\* outcome pass writes exactly four cells of its row: status empty,
\* lastPushedAt the current time, lastError empty, desiredAvailable empty;
\* Available and InventoryItem_ID keep their values.
C3_SuccessWriteBack ==
  [][OutcomeStep =>
       \A r \in CandidateRows :
         outcomes[r].kind = "ok" =>
           /\ Written(writes', r, "outcome") =
                {<< "G", Blank >>, << "H", Iso(now) >>, << "I", Blank >>, << "E", Blank >>}
           /\ WrittenCount(writes', r, "outcome") = 4
           /\ sheet'[r - 1] = [sheet[r - 1] EXCEPT !.G = Blank, !.H = Iso(now),
                                                   !.I = Blank, !.E = Blank]
           /\ sheet'[r - 1].F = sheet[r - 1].F
           /\ sheet'[r - 1].J = sheet[r - 1].J]_vars

\* A run wrote the outcome of a push that was accepted on the retry.
C3_Witness ==
  /\ pc = "idle" /\ exit = "ok"
  /\ Len(reqs) = 3 /\ AcceptedSet(reqs[3])
  /\ sheet[reqs[3].row - 1].E = Blank
  /\ sheet[reqs[3].row - 1].H = Iso(now)

\* ------------------------------------------------------------- C4
\* The message of the failure that decided a push, as it reaches the sheet:
\* the text of the answer, cut to MsgSliceLimit characters.
ExpectedLastError(resp) ==
  [k |-> TextKind(resp),
   n |-> Min(MsgSliceLimit,
             IF resp.kind = "userErrors" THEN UserErrorsPrefixLen + Min(resp.bodyLen, JsonSliceLimit)
             ELSE IF resp.kind = "http" THEN HttpPrefixLen + Min(resp.bodyLen, JsonSliceLimit)
             ELSE ReadFailLen)]

\* C4: for a candidate that ended in terminal failure the outcome pass writes
\* exactly two cells of its row: status ERROR and lastError the failure
\* message; desiredAvailable, Available, lastPushedAt and InventoryItem_ID keep
\* their values; the message of a rejection reaches past the first error code
\* of the platform's userErrors.
C4_FailureWriteBack ==
  [][OutcomeStep =>
       \A r \in CandidateRows :
         outcomes[r].kind # "ok" =>
           /\ Written(writes', r, "outcome") =
                {<< "G", ERROR >>, << "I", ExpectedLastError(outcomes[r]) >>}
           /\ WrittenCount(writes', r, "outcome") = 2
           /\ sheet'[r - 1] = [sheet[r - 1] EXCEPT !.G = ERROR,
                                                   !.I = ExpectedLastError(outcomes[r])]
           /\ sheet'[r - 1].E = sheet[r - 1].E /\ sheet'[r - 1].E # Blank
           /\ sheet'[r - 1].I # Blank
           /\ outcomes[r].kind = "userErrors" =>
                sheet'[r - 1].I.n > UserErrorsPrefixLen + CodeOffset]_vars

\* A run wrote the outcome of a push whose retry was rejected, with a message
\* that the cut shortened.
C4_Witness ==
  /\ pc = "idle" /\ exit = "ok"
  /\ Len(reqs) = 3 /\ reqs[3].kind = "userErrors"
  /\ sheet[reqs[3].row - 1].G = ERROR
  /\ sheet[reqs[3].row - 1].I.n = MsgSliceLimit

\* ------------------------------------------------------------- C5
\* The rows of the candidates array after the step.
CandidateRowsNext == {candidates'[j].rowIndex1Based : j \in 1..Len(candidates')}

\* A row synced by an earlier run has an empty Desired_Available and is no part
\* of the present run.
C5_SyncedRowLeftAlone ==
  \A r \in DOMAIN syncedAt :
    syncedAt[r] > 0 =>
      /\ sheet[r - 1].E = Blank
      /\ runs > syncedAt[r] =>
           /\ r \notin CandidateRows /\ r \notin marked /\ r \notin attempted
           /\ \A j \in 1..Len(writes) : writes[j].row # r
           /\ \A j \in 1..Len(reqs) : reqs[j].row # r

\* C5: once a row's push has succeeded and its outcome has been written, no
\* later run selects the row or issues a platform write for it until somebody
\* writes Desired_Available again, however the forward sync and the reconcile
\* job write the row's Available in between; and neither of the two ever
\* writes Desired_Available.
C5_LoopPrevention ==
  /\ []C5_SyncedRowLeftAlone
  /\ [][\A i \in Items :
          platform'[i] # platform[i] =>
            /\ pc \in {"set1", "set2"}
            /\ candidates[k].inventoryItemId = i
            /\ syncedAt[candidates[k].rowIndex1Based] = 0]_vars
  /\ [][(msgs' # msgs \/ recPc' # recPc) =>
          \A i \in 1..Len(sheet) : sheet'[i].E = sheet[i].E]_vars

\* The first run synced row 2, the reconcile job rewrote its Available, and a
\* later run has come and gone without it.
C5_Witness ==
  /\ syncedAt[2] = 1 /\ runs >= 2 /\ pc = "idle"
  /\ sheet[1].F = Num(IntOf(Typed(1)))
  /\ sheet[1].E = Blank

\* ------------------------------------------------------------- C6
\* C6: whenever a run has ended (normally, by a failing sheet write, or by a
\* crash), no row that the run marked PENDING still has status PENDING.
C6_NoPendingAfterRun ==
  pc = "idle" => \A r \in marked : sheet[r - 1].G # PENDING

\* ------------------------------------------------------------- C7

\* C7: a row is selected only if its item-id cell is non-empty and both its
\* desired and available cells parse to integers that differ; a row whose
\* desired equals available, or in which either is absent or non-numeric, is
\* never selected, gets no PENDING, ERROR or lastError write and causes no
\* platform request.
C7_SelectsOnlyEligible ==
  \A i \in 1..Len(rows) :
    LET r == i + 1
        row == rows[i]
        parsed == Parses(row.E) /\ Parses(row.F)
    IN  /\ r \in CandidateRows =>
              /\ HasId(row.J) /\ parsed /\ IntOf(row.E) # IntOf(row.F)
              /\ CandidateOf(r).desired = IntOf(row.E)
              /\ CandidateOf(r).available = IntOf(row.F)
        /\ (~parsed \/ IntOf(row.E) = IntOf(row.F)) =>
              r \notin CandidateRows /\ Untouched(r)

\* A finished run skipped a row whose desired is text and pushed the row below it.
C7_Witness ==
  /\ pc = "idle" /\ exit = "ok" /\ Len(rows) >= 2
  /\ rows[1].E = Text /\ sheet[1] = rows[1]
  /\ 3 \in attempted /\ sheet[2].E = Blank /\ rows[2].E # Blank

\* ------------------------------------------------------------- C8

\* C8: for every configured per-run maximum N and every snapshot with more than
\* N eligible rows, the run processes exactly the first N eligible rows, in row
\* order; the later eligible rows get no write and no platform request.
C8_TruncatesToFirstN ==
  (runs > 0 /\ Cardinality(EligibleRows(rows)) > maxRowsPerRun) =>
    LET first == FirstOf(EligibleRows(rows), maxRowsPerRun) IN
    /\ CandidateRows = first
    /\ Len(candidates) = maxRowsPerRun
    /\ \A j \in 1..(Len(candidates) - 1) :
         candidates[j].rowIndex1Based < candidates[j + 1].rowIndex1Based
    /\ attempted \subseteq first
    /\ \A r \in attempted : FirstOf(first, Cardinality(attempted)) = attempted
    /\ \A a, b \in 1..Len(writes) :
         (a < b /\ writes[a].pass = writes[b].pass) => writes[a].row <= writes[b].row
    /\ (pc = "idle" /\ exit = "ok") =>
         /\ attempted = first
         /\ \A r \in first : sheet[r - 1].G # PENDING /\ sheet[r - 1] # rows[r - 1]
    /\ \A r \in EligibleRows(rows) \ first : Untouched(r)

\* C8 for a maximum of at least one row.
C8_TruncatesPositiveCap ==
  maxRowsPerRun >= 1 => C8_TruncatesToFirstN

\* ------------------------------------------------------------- C9
\* A run starts right after a run that ended normally.
NextRunStarts == pc = "idle" /\ exit = "ok" /\ runs >= 1 /\ runs' = runs + 1

C10_LoopLeftOnlyWhenDone ==
  pc \in {"outcome"} \/ (pc = "idle" /\ exit \in {"ok", "fail"} /\ candidates # << >> /\ marked # {}) =>
    /\ attempted = CandidateRows
    /\ DOMAIN outcomes = CandidateRows
    /\ \A r \in CandidateRows :
         outcomes[r].kind # "ok" =>
           \E j \in 1..Len(updates) :
             updates[j].row = r /\ updates[j].col = "G" /\ updates[j].val = ERROR
    /\ (pc = "idle" /\ exit = "ok") =>
         \A r \in CandidateRows : outcomes[r].kind # "ok" => sheet[r - 1].G = ERROR

C10_FailureIsolation ==
  /\ []C10_LoopLeftOnlyWhenDone
  /\ [][(pc \in {"set1", "read", "set2"} /\ pc' # pc) =>
          \/ pc' \in {"set1", "read", "set2", "outcome"}
          \/ (pc' = "idle" /\ exit' = "crash")]_vars
  /\ [][(pc \in {"set1", "read", "set2"} /\ k' # k) =>
          (k' = k + 1 /\ pc' = "set1" /\ DOMAIN outcomes' = DOMAIN outcomes \cup {candidates[k].rowIndex1Based})]_vars

\* The first candidate failed, a later one was pushed and accepted, and the
\* outcome pass wrote both.
C10_Witness ==
  /\ pc = "idle" /\ exit = "ok"
  /\ Len(candidates) >= 2
  /\ outcomes[candidates[1].rowIndex1Based].kind = "http"
  /\ outcomes[candidates[2].rowIndex1Based].kind = "ok"
  /\ sheet[candidates[1].rowIndex1Based - 1].G = ERROR
  /\ sheet[candidates[2].rowIndex1Based - 1].G = Blank

\* ------------------------------------------------------------- C11
\* The passes of the current run that have written, in the order of their writes.
PassOrder(log) ==
  \A a, b \in 1..Len(log) :
    (log[a].pass = "outcome" /\ log[b].pass = "pending") => b < a

\* No request without the PENDING marks; the outcome pass writes after the PENDING pass.
C11_PendingBeforePush ==
  /\ (attempted # {} \/ reqs # << >>) =>
       /\ marked = CandidateRows
       /\ \A r \in CandidateRows : WrittenCount(writes, r, "pending") = 1
  /\ marked = {} => (attempted = {} /\ reqs = << >> /\ outcomes = << >>)
  /\ PassOrder(writes)

\* C11: within a run the PENDING bulk write completes before the first
\* conditional set is issued, and the outcome bulk write is issued only after
\* the last candidate's push has finished; when the PENDING write fails no
\* platform request is made.
C11_PassOrdering ==
  /\ []C11_PendingBeforePush
  /\ [][(pc = "pending" /\ pc' = "idle") =>
          (attempted' = {} /\ reqs' = << >> /\ platform' = platform)]_vars
  /\ [][(Len(writes') > Len(writes) /\ writes'[Len(writes')].pass = "outcome") =>
          /\ pc = "outcome" /\ k = Len(candidates)
          /\ attempted = CandidateRows
          /\ DOMAIN outcomes = CandidateRows
          /\ ~InFlight]_vars

\* A run with two candidates went through both passes.
C11_Witness ==
  /\ pc = "idle" /\ exit = "ok" /\ Len(candidates) >= 2
  /\ attempted = CandidateRows
  /\ \A r \in CandidateRows :
       WrittenCount(writes, r, "pending") = 1 /\ WrittenCount(writes, r, "outcome") >= 2

\* ------------------------------------------------------------- C12
\* A run starts after an earlier run.
LaterRunStarts == pc = "idle" /\ runs >= 1 /\ runs' = runs + 1
FailedRows == {r \in DOMAIN outcomes : outcomes[r].kind # "ok"}

AttemptedSoFar == {i + 1 : i \in {x \in 1..Len(sheet) : sheet[x].G = ERROR \/ sheet[x].H # Blank}}

\* C13: with a backlog larger than the cap, repeated runs get through it:
\* every eligible row eventually has had a push attempt, none waits for ever
\* behind the rows before it.
C13_BacklogProgress ==
  <>(AttemptedSoFar = SheetRows(sheet))

\* ------------------------------------------------------------- C14
\* The outcome of row r's push is in the sheet.
Persisted(r) ==
  IF outcomes[r].kind = "ok"
    THEN sheet[r - 1].G = Blank /\ sheet[r - 1].E = Blank /\ sheet[r - 1].H = Iso(now)
    ELSE sheet[r - 1].G = ERROR /\ sheet[r - 1].I # Blank

\* C14: when a run is aborted partway through its candidate list, the outcomes
\* (success cells or ERROR cells) of the candidates processed before the abort
\* are in the sheet.
C14_OutcomesSurviveAbort ==
  (pc = "idle" /\ exit = "crash") => \A r \in DOMAIN outcomes : Persisted(r)

\* ------------------------------------------------------------- C15
\* The run has not read the sheet, written a cell or made a platform request.
NothingTouched ==
  /\ rows = << >> /\ candidates = << >>
  /\ writes = << >> /\ marked = {}
  /\ reqs = << >> /\ attempted = {}
  /\ sheet = [i \in 1..NumRows |-> CleanRow(i, Typed(i))]
  /\ platform = [i \in Items |-> 0]
FailedOnConfig == NothingTouched /\ pc = "idle" /\ (runs >= 1 => exit = "fail")

\* C15 as claimed: when any one of the six run parameters is absent, the run
\* fails before the sheet is read, a cell written or a platform request made.
C15_AllParamsRequired ==
  env # Params => FailedOnConfig

\* C15 amended: when the spreadsheet id, the store domain, the location id or
\* the access token is absent, the run fails before the sheet is read, a cell
\* written or a platform request made; an absent sheet name or maximum of rows
\* per run is replaced by its default (50 rows) and the run goes on.
C15_FourParamsRequired ==
  /\ ~(Params \ {"SHEET_NAME", "MAX_ROWS_PER_RUN"} \subseteq env) => FailedOnConfig
  /\ (Params \ {"SHEET_NAME", "MAX_ROWS_PER_RUN"} \subseteq env /\ "MAX_ROWS_PER_RUN" \notin env) =>
       /\ maxRowsPerRun = DefaultMaxRows
       /\ (runs >= 1 /\ exit # "fail") => rows # << >>

\* A run without the access token has failed; nothing was touched.
C15_Witness ==
  /\ env = Params \ {"SHOPIFY_ADMIN_TOKEN"}
  /\ runs = 1 /\ exit = "fail" /\ NothingTouched

\* ------------------------------------------------------------- C16
\* C16: a run issues one read of the sheet and, when it has at least one
\* candidate, one bulk write for the PENDING pass and one for the outcome
\* pass, however many candidates there are; a run with no candidate issues no
\* write.
C16_ConstantStoreCalls ==
  runs >= 1 =>
    /\ Len(calls) \in 1..3
    /\ calls[1] = "values.get"
    /\ Len(calls) >= 2 => calls[2] = "batchUpdate:pending" /\ candidates # << >>
    /\ Len(calls) = 3 => calls[3] = "batchUpdate:outcome" /\ attempted = CandidateRows
    /\ candidates = << >> => (calls = << "values.get" >> /\ writes = << >>)
    /\ (pc = "idle" /\ exit = "ok" /\ candidates # << >>) => Len(calls) = 3
    /\ pc \in {"set1", "read", "set2", "outcome"} => Len(calls) = 2
    /\ Len(writes) > 0 => Len(calls) >= 2
    /\ Len(writes) > Len(candidates) => Len(calls) = 3

\* A finished run with more than one candidate.
C16_Witness ==
  /\ pc = "idle" /\ exit = "ok" /\ Len(candidates) >= 2
  /\ calls = << "values.get", "batchUpdate:pending", "batchUpdate:outcome" >>
  /\ Len(writes) > 3

\* ------------------------------------------------------------- C17
\* The rows of the candidates before position j of the pass.
RowsBefore(j) == {candidates[i].rowIndex1Based : i \in 1..(j - 1)}

\* A platform request is issued in this step.
RequestStep == reqs' # reqs /\ reqs' # << >>

\* The requests logged belong to one candidate, the candidates are in row
\* order, and while a candidate's retry is outstanding exactly the candidates
\* before it have an outcome.
C17_OneCandidateAtATime ==
  /\ \A a, b \in 1..Len(reqs) : reqs[a].row = reqs[b].row
  /\ \A a, b \in 1..Len(candidates) :
       a < b => candidates[a].rowIndex1Based < candidates[b].rowIndex1Based
  /\ pc \in {"set1", "read", "set2"} =>
       /\ k \in 1..Len(candidates)
       /\ DOMAIN outcomes = RowsBefore(k)
       /\ attempted \subseteq RowsBefore(k + 1)
  /\ InFlight =>
       /\ reqs # << >>
       /\ \A j \in 1..Len(reqs) : reqs[j].row = candidates[k].rowIndex1Based
       /\ candidates[k].rowIndex1Based \notin DOMAIN outcomes

\* C17: within a run the platform requests are made one at a time; a request
\* of candidate k+1 is made only when candidate k has its outcome, success or
\* failure, and the candidates are taken in row order.
C17_SequentialPush ==
  /\ []C17_OneCandidateAtATime
  /\ [][RequestStep =>
          /\ pc \in {"set1", "read", "set2"}
          /\ reqs'[Len(reqs')].row = candidates[k].rowIndex1Based
          /\ DOMAIN outcomes = RowsBefore(k)
          /\ attempted \subseteq RowsBefore(k + 1)
          /\ (k' # k => (k' = k + 1 /\ DOMAIN outcomes' = RowsBefore(k + 1)))]_vars

\* The second candidate's retry is outstanding, the first has its outcome.
C17_Witness ==
  /\ pc = "set2" /\ k = 2
  /\ DOMAIN outcomes = {candidates[1].rowIndex1Based}
  /\ reqs[1].row = candidates[2].rowIndex1Based
  /\ candidates[1].rowIndex1Based < candidates[2].rowIndex1Based

\* ------------------------------------------------------------- C18
\* A step of the forward-sync job (a message is pulled) or of the reconcile job.
OtherJobStep == msgs' # msgs \/ recPc' # recPc

\* The cells of sheet row i named by cols are the same after the step.
CellsKept(i, cols) == \A c \in cols : sheet'[i][c] = sheet[i][c]

\* C18: the desiredAvailable, status, lastPushedAt and lastError cells of an
\* existing row are written by the reverse-sync job only; no step of the
\* forward sync or of the reconcile job changes any of them.
C18_ReverseSyncCellsKept ==
  [][OtherJobStep => \A i \in 1..Len(sheet) : CellsKept(i, {"E", "G", "H", "I"})]_vars

\* The part that holds: desiredAvailable, status and lastPushedAt.
C18_DesiredStatusPushedAtKept ==
  [][OtherJobStep => \A i \in 1..Len(sheet) : CellsKept(i, {"E", "G", "H"})]_vars

\* ------------------------------------------------------------- C19
\* The run has ended.
RunEnded == pc = "idle" /\ runs >= 1

\* What went wrong in the run that ended, read off its logs: a required
\* variable was unset; the read was issued and no rows came back; the PENDING
\* call was the last one and marked nothing; the outcome call was issued and
\* wrote nothing.
ConfigFailed == ~(Required \subseteq env)
ReadFailed == calls = << "values.get" >> /\ rows = << >>
PendingWriteFailed ==
  /\ Len(calls) = 2 /\ calls[2] = "batchUpdate:pending"
  /\ marked = {}
OutcomeWriteFailed ==
  /\ Len(calls) = 3 /\ calls[3] = "batchUpdate:outcome"
  /\ \A j \in 1..Len(writes) : writes[j].pass # "outcome"

\* C19: a run exits with failure exactly when the configuration check, the
\* sheet read, the PENDING bulk write or the outcome bulk write failed; a run
\* that completed its scan and both write passes exits with success, also
\* when every candidate ended in ERROR.
C19_ExitStatus ==
  RunEnded =>
    /\ exit \in {"ok", "fail"}
    /\ exit = "fail" <=>
         (ConfigFailed \/ ReadFailed \/ PendingWriteFailed \/ OutcomeWriteFailed)
    /\ (/\ candidates # << >>
        /\ marked = CandidateRows
        /\ \A r \in CandidateRows : WrittenCount(writes, r, "outcome") >= 1) => exit = "ok"

\* A completed run in which every candidate ended in ERROR exited with success.
C19_Witness ==
  /\ RunEnded /\ exit = "ok"
  /\ Len(candidates) >= 2
  /\ \A r \in CandidateRows : outcomes[r].kind # "ok" /\ sheet[r - 1].G = ERROR

\* ------------------------------------------------------------- C20
\* The Available cell of the row of item i holds the platform's quantity.
AvailableInStep(i) ==
  \A r \in 1..Len(sheet) :
    sheet[r].J = Gid(i) => normalizeInt(sheet[r].F) = Some(platform[i])

\* C20: when the platform quantity of a tracked item stops changing, every
\* change is published and the forward sync keeps running, the row's
\* Available cell eventually equals the platform quantity and stays equal.
C20_AvailableCatchesUp ==
  \A i \in Items : \A q \in Qty :
    <>[](platform[i] = q) => <>[]AvailableInStep(i)

\* ------------------------------------------------------------- C21
\* The platform accepts a conditional set for sheet row r in this step.
AcceptedSetStep(r) ==
  /\ reqs' # reqs /\ reqs' # << >>
  /\ reqs'[Len(reqs')].row = r
  /\ AcceptedSet(reqs'[Len(reqs')])

\* A run that started after a killed run has ended with its outcome pass written.
RerunDone == pc = "idle" /\ exit = "ok" /\ runs >= 2 /\ applied # {}

\* C21: running the reverse sync again after a run was killed between the
\* accepted platform write and the outcome write ends as the one uninterrupted
\* run would have: the second run adds nothing to the platform quantity that
\* the first had already set, and unless the platform refuses the second
\* run's request the row ends with the success cells.
C21_RerunAsUninterrupted ==
  /\ [][\A r \in applied : AcceptedSetStep(r) => platform' = platform]_vars
  /\ [](RerunDone =>
         \A r \in applied :
           (r \in DOMAIN outcomes => outcomes[r].kind = "ok") =>
             (sheet[r - 1].E = Blank /\ sheet[r - 1].G = Blank))

\* ------------------------------------------------------------- C22
\* The rows the message's item id points at: the first row whose
\* InventoryItem_ID is the gid, when both headers are there.
MessageTarget(m) ==
  IF {idColumnHeader, availableColumnHeader} \subseteq headers
    THEN {r \in 1..Len(sheet) :
            /\ sheet[r].J = Gid(m.inventory_item_id)
            /\ \A q \in 1..(r - 1) : sheet[q].J # Gid(m.inventory_item_id)}
    ELSE {}

\* C22: processing one forward-sync message writes the Available cell of the
\* first row whose InventoryItem_ID is the message's gid with the message's
\* available value, and no other cell of any row; it writes nothing when no
\* row matches or when one of the two headers is missing.
C22_OneCellPerMessage ==
  [][\A m \in msgs :
       msgs' = msgs \ {m} =>
         /\ Len(sheet') = Len(sheet)
         /\ \A r \in 1..Len(sheet) : \A col \in Cols :
              sheet'[r][col] = IF r \in MessageTarget(m) /\ col = "F"
                                THEN NumStr(m.available)
                                ELSE sheet[r][col]]_vars

\* Two rows share an item id; a message for it was processed and only the
\* first row's Available was written.
C22_Witness ==
  /\ msgs = {}
  /\ sheet[1].J = Gid(1) /\ sheet[2].J = Gid(1)
  /\ sheet[1].F = NumStr(MaxQty)
  /\ sheet[2].F = Num(0)
  /\ sheet[1].E = Num(1)

\* ------------------------------------------------------------- C23
\* Every row with the id of an item that has a level at the location holds the
\* platform's quantity in Available.
AllAvailableInStep ==
  \A r \in 1..Len(sheet) :
    LET invItemId == invItemGidOf(sheet[r].J)
    IN  (invItemId # None /\ invItemId[1] \in DOMAIN platform) =>
          normalizeInt(sheet[r].F) = Some(platform[invItemId[1]])

\* The reconcile run ends in this step.
ReconcileEnds == recPc # "idle" /\ recPc' = "idle"

\* C23: when a reconcile run completes, with no platform or sheet change
\* during it, every row that has the id of an item with a level at the
\* location has Available equal to the platform quantity.
C23_ReconcileRebuildsAll ==
  [][ReconcileEnds => AllAvailableInStep']_vars


\* ------------------------------------------------------------- C24
\* The product details of an item that has a type and a title only.
TypeAndTitle ==
  [productType |-> Str(1), productTitle |-> Str(1), variantTitle |-> Blank, sku |-> Blank]

\* A row that was never linked to an item: its id cell is empty, whatever
\* somebody typed into its other cells.
UnlinkedRows ==
  {[Row(e, f, Blank) EXCEPT !.A = Str(2)] : e \in {Blank, Num(1)}, f \in {Blank, Num(0)}}

\* One linked, edited row and one row without item id, in either order, with
\* the reverse sync, the forward sync, the reconcile and the metadata job.
InitIgnore ==
  /\ InitJobs
  /\ jobMax = DefaultJobMax
  /\ headers = AllHeaders
  /\ env = Params
  /\ catalog = [i \in Items |-> TypeAndTitle]
  /\ platform = [i \in Items |-> MaxQty]
  /\ \E i \in 1..NumRows : \E u \in UnlinkedRows :
       sheet = [r \in 1..NumRows |-> IF r = i THEN CleanRow(r, Typed(r)) ELSE u]
  /\ maxRowsPerRun = NumRows
  /\ runBudget = 1

NextIgnore ==
  \/ StartRun
  \/ MarkPending
  \/ Attempt1
  \/ WriteOutcome
  \/ Webhook
  \/ ForwardSync
  \/ ReconcileRead
  \/ ReconcileMap
  \/ ReconcileWrite
  \/ MetadataRead
  \/ MetadataWrite

SpecIgnore == InitIgnore /\ [][NextIgnore]_vars

\* The data rows whose item-id cell is empty.
Unlinked(sh) == {r \in 1..Len(sh) : sh[r].J = Blank}

\* C24: a row whose item-id cell is empty is ignored by every job: no step of
\* the reverse sync, the forward sync, the reconcile or the metadata job
\* changes a cell of it, and no platform request is made for it.
C24_UnlinkedRowsIgnored ==
  /\ [][\A r \in Unlinked(sheet) : r \in 1..Len(sheet') /\ sheet'[r] = sheet[r]]_vars
  /\ [](\A a \in 1..Len(reqs) : (reqs[a].row - 1) \notin Unlinked(sheet))
  /\ [](\A a \in 1..Len(candidates) : (candidates[a].rowIndex1Based - 1) \notin Unlinked(sheet))

\* The row without id holds a desired quantity that differs from its
\* Available; the run has pushed the other row, and the reconcile and the
\* metadata job have written that other row.
C24_Witness ==
  /\ pc = "idle" /\ runs = 1 /\ outcomes # << >>
  /\ recPc = "idle" /\ metaUpdates = << >>
  /\ \E r \in Unlinked(sheet) : \E o \in 1..Len(sheet) :
       /\ sheet[r].E = Num(1) /\ sheet[r].F = Num(0) /\ sheet[r].A = Str(2)
       /\ sheet[o].J # Blank
       /\ sheet[o].A = Str(1) /\ sheet[o].B = Str(1)
       /\ sheet[o].F = Num(MaxQty)


\* ------------------------------------------------------------- C25
\* A product type that contains the keyword "bundle".
Bundle == Str(2)

\* The product details of an item of that type.
BundleDetails ==
  [productType |-> Bundle, productTitle |-> Str(1), variantTitle |-> Blank, sku |-> Blank]

\* A sheet that is empty or has one linked, edited row (its id possibly with
\* surrounding blanks), items that are not in it, the last of them a bundle,
\* with append runs that may overlap, the metadata job and the forward sync.
InitAppend ==
  /\ InitJobs
  /\ jobMax \in {[DefaultJobMax EXCEPT !.append = n] : n \in {0, 1, AppendMaxRows}}
  /\ headers = AllHeaders
  /\ env = Params
  /\ catalog = [i \in Items |-> IF i = NumRows THEN BundleDetails ELSE TypeAndTitle]
  /\ platform = [i \in Items |-> MaxQty]
  /\ sheet \in {<< >>} \cup {<< Row(Typed(i), Num(0), Gid(i)) >> : i \in Items}
                     \cup {<< Row(Typed(i), Num(0), GidPad(i)) >> : i \in Items}
  /\ maxRowsPerRun = NumRows
  /\ runBudget = 0

NextAppend ==
  \/ AppendRead
  \/ AppendWrite
  \/ MetadataRead
  \/ MetadataWrite
  \/ Webhook
  \/ ForwardSync

SpecAppend == InitAppend /\ [][NextAppend]_vars

\* C25: inventoryItemId is a unique key of the table: no two rows share an
\* item id, after any interleaving of append runs (overlapping ones included)
\* and the other jobs.
C25_ItemIdUnique ==
  \A a, b \in 1..Len(sheet) :
    a # b /\ sheet[a].J # Blank => invItemGidOf(sheet[a].J) # invItemGidOf(sheet[b].J)


\* ------------------------------------------------------------- C26
\* One linked, edited row and a second item that is not in the sheet yet,
\* with every job that writes by row number: a reverse-sync run, the
\* reconcile job and the metadata job, beside the append job.
InitRows ==
  /\ InitJobs
  /\ jobMax = DefaultJobMax
  /\ headers = AllHeaders
  /\ env = Params
  /\ catalog = [i \in Items |-> TypeAndTitle]
  /\ platform \in [Items -> {0, MaxQty}]
  /\ \E i \in Items : sheet = << CleanRow(i, Typed(i)) >>
  /\ maxRowsPerRun = NumRows
  /\ runBudget = 1

NextRows ==
  \/ AppendRead
  \/ AppendWrite
  \/ MetadataRead
  \/ MetadataWrite
  \/ StartRun
  \/ MarkPending
  \/ Attempt1
  \/ WriteOutcome
  \/ ReconcileRead
  \/ ReconcileMap
  \/ ReconcileWrite

SpecRows == InitRows /\ [][NextRows]_vars

\* The rows a job that has read the sheet is about to write, with the item id
\* each of them had in the job's snapshot where the job keeps it.
SnapshotRows ==
  {candidates[a].rowIndex1Based : a \in 1..Len(candidates)}
    \cup {recUpdates[a].row : a \in 1..Len(recUpdates)}
    \cup {metaUpdates[a].row : a \in 1..Len(metaUpdates)}

\* C26: no step deletes a row or changes the item id of an existing row, rows
\* are only added after the existing ones, and a row number captured in a
\* job's snapshot denotes the same item when the job writes to it.
C26_RowsStay ==
  /\ [][/\ Len(sheet') >= Len(sheet)
        /\ \A r \in 1..Len(sheet) : sheet'[r].J = sheet[r].J
        /\ appending' # appending /\ Len(appending') < Len(appending) =>
             \A r \in 1..Len(sheet) : sheet'[r] = sheet[r]]_vars
  /\ [](\A r \in SnapshotRows : (r - 1) \in 1..Len(sheet))
  /\ [](\A a \in 1..Len(candidates) :
          pc # "idle" =>
            invItemGidOf(sheet[candidates[a].rowIndex1Based - 1].J)
              = Some(candidates[a].inventoryItemId))

\* A run has marked its candidate row and the metadata job has built its
\* updates for it, and meanwhile an append run has added a row below.
C26_Witness ==
  /\ pc = "set1"
  /\ metaUpdates # << >>
  /\ Len(sheet) = 2
  /\ sheet[1].G = PENDING
  /\ sheet[2].J # sheet[1].J


\* ------------------------------------------------------------- C27
\* The items with a level at the location whose id is not in the sheet.
MissingItems(sh) == {i \in DOMAIN platform : Some(i) \notin existingIds(sh)}

\* An append run has read in this step and has rows to append.
AppendReadStep == Len(appending') > Len(appending)

\* One of the append runs writes in this step.
AppendWriteStep == Len(appending') < Len(appending)

\* C27: an append run builds one row for each item that has a level and is
\* not in its snapshot, at most maxRowsPerRun rows and no two for one id;
\* each row has the item id, the platform quantity as Available and an empty
\* desiredAvailable, status, lastPushedAt and lastError; the write changes no
\* existing row; with nothing missing the run appends nothing.
C27_AppendRun ==
  /\ [][AppendReadStep =>
          LET newRows == appending'[Len(appending')]
          IN  /\ newRows # << >>
              /\ Len(newRows) = Min(Cardinality(MissingItems(sheet)), jobMax.append)
              /\ \A a, b \in 1..Len(newRows) : a # b => newRows[a].J # newRows[b].J
              /\ \A a \in 1..Len(newRows) :
                   \E i \in MissingItems(sheet) :
                     /\ newRows[a].J = Gid(i)
                     /\ newRows[a].F = Num(platform[i])
                     /\ \A c \in {"E", "G", "H", "I"} : newRows[a][c] = Blank]_vars
  /\ [][AppendWriteStep =>
          /\ Len(sheet') > Len(sheet)
          /\ \A r \in 1..Len(sheet) : sheet'[r] = sheet[r]]_vars
  /\ [](MissingItems(sheet) = {} /\ appending = << >> => ~ENABLED (AppendRead /\ AppendReadStep))


\* ------------------------------------------------------------- C28
\* The product details the platform may hold: with or without a product type
\* and a sku, the sku being a string of digits.
MetaDetails ==
  {[productType |-> t, productTitle |-> Str(1), variantTitle |-> Blank, sku |-> d] :
     t \in {Blank, Str(1)}, d \in {Blank, Digits(1)}}

\* What data row i may hold when the metadata job reads it: an edited row
\* with or without a category (another one than the platform's), with a sku
\* (the number 1 or a text), the id of item i plain or padded, the id of an
\* item the platform does not know, or no id.
IdCell(i, kind) ==
  CASE kind = "own" -> Gid(i)
    [] kind = "padded" -> GidPad(i)
    [] kind = "unknown" -> Gid(NumRows + 1)
    [] OTHER -> Blank
MetaRow(a, d, j) == [Row(Num(1), Num(0), j) EXCEPT !.A = a, !.D = d]

\* Metadata runs, one after the other, with the cap at 1 or at its default.
InitMeta ==
  /\ InitJobs
  /\ jobMax \in {[DefaultJobMax EXCEPT !.metadata = n] : n \in {1, MetadataMaxRows}}
  /\ headers = AllHeaders
  /\ env = Params
  /\ catalog \in {[i \in Items |-> d] : d \in MetaDetails}
  /\ platform = [i \in Items |-> MaxQty]
  /\ \E a \in [1..NumRows -> {Blank, Str(2)}] :
     \E d \in [1..NumRows -> {Num(1), Str(1)}] :
     \E j \in [1..NumRows -> {"own", "padded", "unknown", "none"}] :
       sheet = [i \in 1..NumRows |-> MetaRow(a[i], d[i], IdCell(i, j[i]))]
  /\ maxRowsPerRun = NumRows
  /\ runBudget = 0

NextMeta ==
  \/ MetadataRead
  \/ MetadataWrite

SpecMeta == InitMeta /\ [][NextMeta]_vars

\* C28: a step of the metadata job changes only cells of the Category,
\* Product_Title, Variant_Title and SKU columns of rows that have an item id;
\* it adds or removes no row and makes no platform request or write.
C28_MetadataWritesMetadataOnly ==
  [][/\ Len(sheet') = Len(sheet)
     /\ \A r \in 1..Len(sheet) : \A c \in Cols :
          sheet'[r][c] # sheet[r][c] => c \in {"A", "B", "C", "D"} /\ sheet[r].J # Blank
     /\ platform' = platform
     /\ reqs' = reqs]_vars

\* A metadata run has written the category of an edited row and has left its
\* quantities, and a row without id, as they were.
C28_Witness ==
  /\ metaUpdates = << >>
  /\ sheet[1].A = Str(1) /\ sheet[1].D = Digits(1)
  /\ sheet[1].E = Num(1) /\ sheet[1].F = Num(0)
  /\ sheet[2].J = Blank /\ sheet[2].A = Str(2)


\* ------------------------------------------------------------- C29
MetaCols == {"A", "B", "C", "D"}

\* The platform value for the cell of data row r in column c: the field of
\* the row's item, empty when the row has no id or the platform has no such item.
PlatformValue(sh, r, c) ==
  LET details == detailsOf(sh[r].J)
  IN  IF sh[r].J = Blank \/ details = None THEN Blank
      ELSE CASE c = "A" -> details[1].productType
             [] c = "B" -> details[1].productTitle
             [] c = "C" -> details[1].variantTitle
             [] OTHER -> details[1].sku

\* The platform value is non-empty and differs, as a string, from the cell.
Differs(sh, r, c) ==
  /\ PlatformValue(sh, r, c) # Blank
  /\ StringOf(PlatformValue(sh, r, c)) # StringOf(sh[r][c])

\* The cells of the rows in rs that differ, with the platform's values.
CellsThatDiffer(sh, rs) ==
  {<< p[1], p[2], PlatformValue(sh, p[1], p[2]) >> :
     p \in {q \in rs \X MetaCols : Differs(sh, q[1], q[2])}}

\* The cells of an updates array, with their values.
CellsOf(data) == {<< data[a].row - 1, data[a].col, data[a].val >> : a \in 1..Len(data)}

\* The rows of sh with a cell that differs, and those the loop reaches before
\* its count of updated rows is at the cap.
RowsToUpdate(sh) == {r \in 1..Len(sh) : \E c \in MetaCols : Differs(sh, r, c)}
ReachedRows(sh) ==
  {r \in 1..Len(sh) : Cardinality({q \in RowsToUpdate(sh) : q < r}) < jobMax.metadata}

\* A metadata run reads in this step and has something to write; it writes.
MetadataReadStep == metaUpdates = << >> /\ metaUpdates' # << >>
MetadataWriteStep == metaUpdates # << >> /\ metaUpdates' = << >>

\* C29 as stated: a run writes a metadata cell if and only if the platform
\* value for it is non-empty and differs as a string from the cell's value.
C29_WritesIffDiffers ==
  /\ [][MetadataReadStep =>
          CellsOf(metaUpdates') = CellsThatDiffer(sheet, 1..Len(sheet))]_vars
  /\ [](metaUpdates = << >> /\ ~ENABLED (MetadataRead /\ MetadataReadStep) =>
          CellsThatDiffer(sheet, 1..Len(sheet)) = {})

\* C29, with the cap: a run writes a metadata cell if and only if its row is
\* reached before the cap and the platform value for it is non-empty and
\* differs as a string from the cell's value; the cell gets that value,
\* never an empty one, and no other cell changes; after the write of a run
\* that stayed under the cap no cell differs, so the next run writes nothing.
C29_WritesIffDiffersUnderCap ==
  /\ [][MetadataReadStep =>
          CellsOf(metaUpdates') = CellsThatDiffer(sheet, ReachedRows(sheet))]_vars
  /\ [](metaUpdates = << >> /\ ~ENABLED (MetadataRead /\ MetadataReadStep) =>
          CellsThatDiffer(sheet, ReachedRows(sheet)) = {})
  /\ [][MetadataWriteStep =>
          /\ \A r \in 1..Len(sheet) : \A c \in Cols :
               sheet'[r][c] =
                 IF \E w \in CellsOf(metaUpdates) : w[1] = r /\ w[2] = c
                   THEN PlatformValue(sheet, r, c) ELSE sheet[r][c]
          /\ \A w \in CellsOf(metaUpdates) : w[3] # Blank
          /\ Cardinality({w[1] : w \in CellsOf(metaUpdates)}) < jobMax.metadata =>
               CellsThatDiffer(sheet', 1..Len(sheet')) = {}]_vars

\* A run under the cap has written: row 1 got the platform's category over
\* another one and kept its sku, the number 1, the platform's being "1"; row 2,
\* of an item the platform does not know, kept its texts; nothing differs now.
C29_Witness ==
  /\ metaUpdates = << >>
  /\ jobMax.metadata = MetadataMaxRows
  /\ sheet[1].J = GidPad(1) /\ sheet[1].A = Str(1) /\ sheet[1].D = Num(1)
  /\ catalog[1].sku = Digits(1)
  /\ sheet[2].J = Gid(NumRows + 1) /\ sheet[2].A = Str(2)
  /\ CellsThatDiffer(sheet, 1..Len(sheet)) = {}

\* ------------------------------------------------------------- C30
\* The product type contains one of the excluded keywords.
Excluded(productType) == productType = Bundle

\* The id cell is the id of an item of an excluded product type.
ExcludedItem(cell) ==
  LET details == detailsOf(cell)
  IN  details # None /\ Excluded(details[1].productType)

\* C30: an item whose product type contains an excluded keyword is never
\* appended as a new row and never has its metadata cells written.
C30_ExcludedTypesLeftOut ==
  [][/\ \A r \in 1..Len(sheet') : r > Len(sheet) => ~ExcludedItem(sheet'[r].J)
     /\ \A r \in 1..Len(sheet) :
          ExcludedItem(sheet[r].J) => \A c \in MetaCols : sheet'[r][c] = sheet[r][c]]_vars


\* ------------------------------------------------------------- C31
\* The status of data row r changes from a to b in this step.
StatusStep(r, a, b) == sheet[r].G = a /\ sheet'[r].G = b

\* Every change of a status cell in this step is one of the transitions.
OnlyTransitions(transitions) ==
  \A r \in 1..Len(sheet) :
    sheet'[r].G # sheet[r].G => \E t \in transitions : StatusStep(r, t[1], t[2])

\* A status cell that becomes EMPTY or ERROR in this step is of a row that the
\* run in progress has marked PENDING.
OutcomeOnlyForMarked ==
  \A r \in 1..Len(sheet) :
    sheet'[r].G # sheet[r].G /\ sheet'[r].G \in {Blank, ERROR} => (r + 1) \in marked

\* C31 as stated: the only status transitions are EMPTY to PENDING, PENDING
\* to EMPTY and PENDING to ERROR, and no row is written EMPTY or ERROR by a
\* run that did not first mark it PENDING.
C31_ThreeTransitions ==
  [][/\ OnlyTransitions({<< Blank, PENDING >>, << PENDING, Blank >>, << PENDING, ERROR >>})
     /\ OutcomeOnlyForMarked]_vars

\* C31, with the retry of a failed row: ERROR to PENDING is a transition too.
C31_FourTransitions ==
  [][/\ OnlyTransitions({<< Blank, PENDING >>, << PENDING, Blank >>, << PENDING, ERROR >>,
                         << ERROR, PENDING >>})
     /\ OutcomeOnlyForMarked]_vars

\* The second run has marked PENDING a row that the first run left in ERROR:
\* the row still carries the first run's error text.
C31_Witness ==
  /\ runs = 2
  /\ pc = "set1"
  /\ \E r \in 1..Len(sheet) :
       sheet[r].G = PENDING /\ sheet[r].I # Blank /\ (r + 1) \in marked


\* ------------------------------------------------------------- C32
\* The map of a location is built, for every number of levels in LevelCounts.
InitPages ==
  /\ InitRun
  /\ jobMax = DefaultJobMax
  /\ headers = AllHeaders
  /\ env = Params
  /\ platform = [i \in Items |-> 0]
  /\ sheet = [i \in 1..NumRows |-> CleanRow(i, Blank)]
  /\ maxRowsPerRun = NumRows
  /\ runBudget = 0

NextPages ==
  \/ StartMap
  \/ FetchPage

SpecPages == InitPages /\ [][NextPages]_vars

\* C32: buildLocationAvailableMap returns an entry for every item that has a
\* level at the location, however many pages the platform returns.
C32_MapHasEveryLevel ==
  mapPc = "done" => DOMAIN map = 1..levels


\* ------------------------------------------------------------- C33
\* The entries of an updates array for sheet row r, as column-value pairs.
RecordOf(data, r) == {<< data[a].col, data[a].val >> : a \in {b \in 1..Len(data) : data[b].row = r}}
EntriesFor(data, r) == Cardinality({b \in 1..Len(data) : data[b].row = r})

\* The four success cells, with some time stamp, and the two error cells,
\* with some message.
IsSuccessRecord(data, r) ==
  /\ EntriesFor(data, r) = 4
  /\ \E t \in 0..MaxRuns :
       RecordOf(data, r) = {<< "G", Blank >>, << "H", Iso(t) >>, << "I", Blank >>, << "E", Blank >>}
IsErrorRecord(data, r) ==
  /\ EntriesFor(data, r) = 2
  /\ \E msg \in {u[2] : u \in RecordOf(data, r)} :
       msg # Blank /\ RecordOf(data, r) = {<< "G", ERROR >>, << "I", msg >>}

\* The outcome bulk write is made in this step.
OutcomeWriteStep == Len(writes') > Len(writes) /\ writes'[Len(writes')].pass = "outcome"

\* C33: the rows written in the outcome bulk write are the rows marked in the
\* PENDING bulk write, and each gets exactly one outcome record: the four
\* success cells or the two error cells.
C33_OneOutcomePerMarkedRow ==
  [][OutcomeWriteStep =>
       /\ {updates[a].row : a \in 1..Len(updates)} = marked
       /\ marked = {writes[a].row : a \in {b \in 1..Len(writes) : writes[b].pass = "pending"}}
       /\ \A r \in marked :
            /\ IsSuccessRecord(updates, r) \/ IsErrorRecord(updates, r)
            /\ ~(IsSuccessRecord(updates, r) /\ IsErrorRecord(updates, r))
            /\ IsSuccessRecord(updates, r) <=> outcomes[r].kind = "ok"]_vars

\* A run has written its outcomes for two marked rows, one pushed and one
\* refused.
C33_Witness ==
  /\ pc = "idle" /\ exit = "ok"
  /\ Cardinality(marked) = 2
  /\ \E r, q \in marked :
       /\ IsSuccessRecord(updates, r) /\ sheet[r - 1].G = Blank /\ sheet[r - 1].E = Blank
       /\ IsErrorRecord(updates, q) /\ sheet[q - 1].G = ERROR /\ sheet[q - 1].E # Blank


\* ------------------------------------------------------------- C34
\* A run over one linked, edited row while somebody keeps retyping the row's
\* desired quantity; the platform holds what the Available column says or
\* something else.
InitEdit ==
  /\ InitRun
  /\ jobMax = DefaultJobMax
  /\ headers = AllHeaders
  /\ env = Params
  /\ platform \in [Items -> {0, MaxQty}]
  /\ sheet = [i \in 1..NumRows |->
                IF i = 1 THEN CleanRow(i, Typed(i)) ELSE Row(Blank, Blank, Blank)]
  /\ maxRowsPerRun = NumRows
  /\ runBudget = 1

NextEdit ==
  \/ StartRun
  \/ MarkPending
  \/ Attempt1
  \/ ReRead
  \/ Attempt2
  \/ WriteOutcome
  \/ HumanRetype

SpecEdit == InitEdit /\ [][NextEdit]_vars

\* C34: the outcome pass clears a row's desiredAvailable only when the value
\* in the cell at that moment is the value that was pushed, so that a value
\* typed after the run's snapshot read is not lost.
C34_ClearsOnlyWhatWasPushed ==
  [][OutcomeWriteStep =>
       \A r \in 1..Len(sheet) :
         sheet[r].E # Blank /\ sheet'[r].E = Blank =>
           \E a \in 1..Len(candidates) :
             /\ candidates[a].rowIndex1Based = r + 1
             /\ normalizeInt(sheet[r].E) = Some(candidates[a].desired)]_vars


\* ------------------------------------------------------------- C35
\* Two executions of the reverse sync over one linked, edited row, switching
\* at any step; the platform holds what the Available column says.
InitOverlap ==
  /\ InitRun
  /\ jobMax = DefaultJobMax
  /\ headers = AllHeaders
  /\ env = Params
  /\ platform = [i \in Items |-> 0]
  /\ sheet = [i \in 1..NumRows |->
                IF i = 1 THEN CleanRow(i, Typed(i)) ELSE Row(Blank, Blank, Blank)]
  /\ maxRowsPerRun = NumRows
  /\ runBudget = MaxRuns

NextOverlap ==
  \/ StartRun
  \/ MarkPending
  \/ Attempt1
  \/ ReRead
  \/ Attempt2
  \/ WriteOutcome
  \/ Switch

SpecOverlap == InitOverlap /\ [][NextOverlap]_vars

\* Both executions hold sheet row r in their candidates.
BothHold(r) ==
  /\ \E a \in 1..Len(candidates) : candidates[a].rowIndex1Based = r
  /\ \E a \in 1..Len(parked.candidates) : parked.candidates[a].rowIndex1Based = r

\* Both executions have ended.
BothEnded == pc = "idle" /\ parked.pc = "idle" /\ exit = "ok" /\ parked.exit = "ok"

\* The cells of a row after a successful push, and after a terminal failure.
SuccessCells(row) == row.G = Blank /\ row.E = Blank /\ row.I = Blank /\ row.H # Blank
ErrorCells(row) == row.G = ERROR /\ row.E # Blank /\ row.I # Blank

\* C35: when two runs overlap and both hold the same row, the platform
\* accepts at most one conditional set for the row's edit, and the row's
\* final cells are the success cells or the error cells of one run.
C35_OverlapConsistent ==
  \A r \in SheetRows(sheet) :
    BothHold(r) =>
      /\ ~(/\ r \in DOMAIN outcomes /\ outcomes[r].kind = "ok"
           /\ r \in DOMAIN parked.outcomes /\ parked.outcomes[r].kind = "ok")
      /\ BothEnded => SuccessCells(sheet[r - 1]) \/ ErrorCells(sheet[r - 1])


\* ------------------------------------------------------------- C36
\* The request made in this step.
LastReq == reqs'[Len(reqs')]

AllJobsIdle ==
  /\ pc = "idle" /\ exit # "fail"
  /\ recPc = "idle" /\ msgs = {}
  /\ metaUpdates = << >> /\ appending = << >>

\* C37: after any sequence of completed runs of the jobs, a row has status
\* ERROR if and only if its lastError cell is not empty.
C37_ErrorIffLastError ==
  AllJobsIdle => \A r \in 1..Len(sheet) : sheet[r].G = ERROR <=> sheet[r].I # Blank


\* ------------------------------------------------------------- C38
\* What a message of the subscription may be: an inventory-level event for an
\* item at the configured location (with the platform's quantity) or at
\* another location (with that location's quantity), a message that is not
\* JSON, a message without data, and an event received without an ackId.
OtherLocationQty == MaxQty
Event(i, loc) ==
  [inventory_item_id |-> i, location_id |-> loc,
   available |-> IF loc = "configured" THEN platform[i] ELSE OtherLocationQty,
   data |-> "json", ackId |-> TRUE]
Shapes ==
  {Event(i, "configured") : i \in Items}
    \cup {Event(1, "other"), [Event(1, "configured") EXCEPT !.ackId = FALSE]}
    \cup {[Event(1, "configured") EXCEPT !.data = d] : d \in {"garbage", "none"}}

\* One message more than a pull takes, so that a second pull follows.
NumMsgs == MaxBatch + 1

\* The worker run again and again over a subscription that holds NumMsgs
\* messages; the sheet has a row for the first item only.
InitWorker ==
  /\ InitIdle
  /\ catalog = [i \in Items |-> NoDetails]
  /\ jobMax = DefaultJobMax
  /\ headers = AllHeaders
  /\ env = Params
  /\ platform = [i \in Items |-> 0]
  /\ sheet = [i \in 1..NumRows |->
                IF i = 1 THEN CleanRow(i, Typed(i)) ELSE Row(Blank, Blank, Blank)]
  /\ maxRowsPerRun = NumRows
  /\ runBudget = 0
  /\ \E shape \in [1..NumMsgs -> Shapes] :
       msgs = {[messageId |-> n, inventory_item_id |-> shape[n].inventory_item_id,
                location_id |-> shape[n].location_id, available |-> shape[n].available,
                data |-> shape[n].data, ackId |-> shape[n].ackId] : n \in 1..NumMsgs}

NextWorker ==
  \/ Pull
  \/ HandleMessage
  \/ HandleUpdateFails

SpecWorker == InitWorker /\ [][NextWorker]_vars

\* The entries of the log about the message at place n of the batch.
LogOf(n) == SelectSeq(fwdLog, LAMBDA e : e.n = n)

\* The message at place n has had its turn: one attempt entry, then exactly
\* one acknowledgement when it has an ackId and none when it has not.
TurnLogged(n) ==
  /\ LogOf(n) # << >>
  /\ LogOf(n)[1].ev \in {"updated", "failed", "skipped"}
  /\ Len(LogOf(n)) = IF receivedMessages[n].ackId THEN 2 ELSE 1
  /\ receivedMessages[n].ackId => LogOf(n)[2].ev = "ack"

\* The log goes through the batch in pull order.
InPullOrder == \A a, b \in 1..Len(fwdLog) : a < b => fwdLog[a].n <= fwdLog[b].n

\* A pull: a new batch starts.
PullStep == pos > Len(receivedMessages) /\ pos' = 1

C39_AvailableOfConfiguredLocation ==
  \A i \in Items : \A r \in 1..Len(sheet) :
    sheet[r].J = Gid(i) => normalizeInt(sheet[r].F) = Some(platform[i])

====
